---- MODULE Spec2Model ----
(***************************************************************************)
(* A model of graphql-gateway: the schema merger and the gateway lifecycle *)
(* (src/src/gateway.rs) and the query planner / resolver                   *)
(* (src/src/query.rs).                                                     *)
(*                                                                         *)
(* Encodings.  Option<T> is a sequence of length 0 (None) or 1 (Some).     *)
(* The string keys "Kind.Name" and "Kind.Type.Field" of the source are     *)
(* tuples <<kind, name>> and <<kind, name, field>>: format! is injective   *)
(* on the names used here.  HashMap iteration order is not fixed by the    *)
(* build: every place that iterates a HashMap takes the order as a         *)
(* nondeterministic choice among the permutations of its keys.             *)
(***************************************************************************)
EXTENDS Integers, Sequences, FiniteSets, TLC

VARIABLES executors, introspections, schema, document, last, req

vars == <<executors, introspections, schema, document, last, req>>

gwvars == <<executors, introspections, schema, document, last>>

(***************************************************************************)
(* Helpers on sequences and options.                                       *)
(***************************************************************************)
None == <<>>

Some(x) == <<x>>

Range(s) == {s[i] : i \in DOMAIN s}

\* F of value: a value used several times, computed where it is bound
With(value, F(_)) == F(value)

\* then, once now has its value: keeps the evaluation of a loop's
\* accumulator from nesting one level per iteration
Eager(now, then) == IF now = now THEN then ELSE then

Perms(S) == {p \in [1..Cardinality(S) -> S] : \A i, j \in 1..Cardinality(S) : p[i] = p[j] => i = j}

(***************************************************************************)
(* Introspection types (TypeKind, Type, Field of the schema module).       *)
(***************************************************************************)
Named(kind, name) == [kind |-> kind, name |-> name, of_type |-> None]

NonNull(t) == [kind |-> "NonNull", name |-> "", of_type |-> Some(t)]

List(t) == [kind |-> "List", name |-> "", of_type |-> Some(t)]

RECURSIVE get_final_field_type(_)
get_final_field_type(field_type) ==
    IF field_type.kind \in {"List", "NonNull"}
    THEN get_final_field_type(field_type.of_type[1])
    ELSE field_type

Fld(name, type) == [name |-> name, type |-> type]

field_type(field) == get_final_field_type(field.type)

Typ(kind, name, fields, interfaces, possible_types) ==
    [kind |-> kind, name |-> name, fields |-> fields,
     interfaces |-> interfaces, possible_types |-> possible_types]

\* schema_type.to_string(): "{kind}.{name}"
type_key(t) == <<t.kind, t.name>>

\* name.starts_with("__") on the names of the model
MetaNames == {"__Type", "__Schema", "__schema", "__typename"}

starts_with_underscores(name) == name \in MetaNames

(***************************************************************************)
(* The upstream schemas of the model: what each executor's introspection   *)
(* returns (after tests/common.rs: account, review, product), a variant   *)
(* of review for pull, and the meta type every introspection carries.      *)
(***************************************************************************)
TID == NonNull(Named("Scalar", "ID"))

TString == Named("Scalar", "String")

TUser == Named("Object", "User")

TReview == Named("Object", "Review")

TProduct == Named("Object", "Product")

TNode == Named("Interface", "Node")

ScalarID == Typ("Scalar", "ID", None, None, None)

ScalarString == Typ("Scalar", "String", None, None, None)

MetaType == Typ("Object", "__Type", Some(<<Fld("name", TString)>>), Some(<<>>), None)

MetaSchema ==
    Typ("Object", "__Schema",
        Some(<<Fld("types", NonNull(List(NonNull(Named("Object", "__Type")))))>>),
        Some(<<>>), None)

NodeInterface(possible) ==
    Typ("Interface", "Node", Some(<<Fld("id", TID)>>), None, Some(possible))

NodeFields == <<Fld("node", TNode), Fld("nodes", NonNull(List(TNode)))>>

SchemaAcc ==
    [types |-> <<
        Typ("Object", "Query",
            Some(<<Fld("viewer", TUser), Fld("users", NonNull(List(NonNull(TUser))))>> \o NodeFields),
            Some(<<>>), None),
        Typ("Object", "Mutation", Some(<<Fld("signIn", TUser)>>), Some(<<>>), None),
        NodeInterface(<<"User">>),
        Typ("Object", "User",
            Some(<<Fld("id", TID), Fld("email", TString), Fld("username", TString)>>),
            Some(<<"Node">>), None),
        MetaSchema, MetaType, ScalarID, ScalarString >>]

SchemaRev ==
    [types |-> <<
        Typ("Object", "Query", Some(NodeFields), Some(<<>>), None),
        NodeInterface(<<"User", "Review", "Product">>),
        Typ("Object", "User",
            Some(<<Fld("id", TID), Fld("reviews", NonNull(List(NonNull(TReview))))>>),
            Some(<<"Node">>), None),
        Typ("Object", "Review",
            Some(<<Fld("id", TID), Fld("body", TString), Fld("author", TUser),
                   Fld("product", TProduct)>>),
            Some(<<"Node">>), None),
        Typ("Object", "Product", Some(<<Fld("id", TID)>>), Some(<<"Node">>), None),
        MetaSchema, MetaType, ScalarID, ScalarString >>]

\* review after an upgrade: Review.body is gone, Review.text is new, and it
\* now declares User.email as well, typed ID
SchemaRevUpdated ==
    [types |-> <<
        Typ("Object", "Query", Some(NodeFields), Some(<<>>), None),
        NodeInterface(<<"User", "Review", "Product">>),
        Typ("Object", "User",
            Some(<<Fld("id", TID), Fld("email", TID),
                   Fld("reviews", NonNull(List(NonNull(TReview))))>>),
            Some(<<"Node">>), None),
        Typ("Object", "Review",
            Some(<<Fld("id", TID), Fld("text", TString), Fld("author", TUser),
                   Fld("product", TProduct)>>),
            Some(<<"Node">>), None),
        Typ("Object", "Product", Some(<<Fld("id", TID)>>), Some(<<"Node">>), None),
        MetaSchema, MetaType, ScalarID, ScalarString >>]

SchemaProd ==
    [types |-> <<
        Typ("Object", "Query",
            Some(<<Fld("products", NonNull(List(NonNull(TProduct))))>> \o NodeFields),
            Some(<<>>), None),
        Typ("Object", "Mutation", Some(<<Fld("addProduct", TProduct)>>), Some(<<>>), None),
        NodeInterface(<<"Product">>),
        Typ("Object", "Product", Some(<<Fld("id", TID), Fld("name", TString)>>),
            Some(<<"Node">>), None),
        MetaSchema, MetaType, ScalarID, ScalarString >>]

SchemaInv ==
    [types |-> <<
        Typ("Object", "Query", Some(NodeFields), Some(<<>>), None),
        NodeInterface(<<"Product">>),
        Typ("Object", "Product",
            Some(<<Fld("id", TID), Fld("inStock", NonNull(Named("Scalar", "Boolean")))>>),
            Some(<<"Node">>), None),
        MetaSchema, MetaType, ScalarID, Typ("Scalar", "Boolean", None, None, None) >>]

SchemaOf(v) ==
    CASE v = "Acc" -> SchemaAcc
      [] v = "Rev" -> SchemaRev
      [] v = "RevUpdated" -> SchemaRevUpdated
      [] v = "Prod" -> SchemaProd
      [] v = "Inv" -> SchemaInv

(***************************************************************************)
(* create_schema (gateway.rs 106-223).  The accumulator holds the locals   *)
(* of the function; order is the order in which `for (executor_name,       *)
(* schema) in schemas` visits the map.                                     *)
(***************************************************************************)
EmptyMerge ==
    [types |-> <<>>, types_by_name |-> <<>>, type_fields_by_name |-> <<>>,
     duplicate_object_fields |-> <<>>, possible_types_by_name |-> {}]

\* mutant of whitelisted: the kind test inverted (== for !=)
whitelisted_inverted(current_type, schema_type, field) ==
    \/ field_type(field).name = "ID"
    \/ current_type.kind = "Object"
    \/ field_type(field).kind = "Interface"
    \/ starts_with_underscores(schema_type.name)

\* gateway.rs 165-168: the conditions under which a repeated field is accepted
whitelisted(current_type, schema_type, field) ==
    \/ field_type(field).name = "ID"
    \/ current_type.kind # "Object"
    \/ field_type(field).kind = "Interface"
    \/ starts_with_underscores(schema_type.name)

\* merge_field putting a new field in front of the fields merged so far
merge_field_in_front(acc, ti, executor_name, schema_type, field) ==
    LET key == type_key(schema_type)
        field_key == <<key[1], key[2], field.name>>
        current_type == acc.types[ti]
        current_fields == IF current_type.fields = None THEN <<>> ELSE current_type.fields[1]
    IN  IF field_key \in DOMAIN acc.type_fields_by_name
        THEN IF whitelisted(current_type, schema_type, field)
             THEN [acc EXCEPT !.types[ti].fields = Some(current_fields)]
             ELSE [acc EXCEPT !.types[ti].fields = Some(current_fields),
                              !.duplicate_object_fields =
                                  Append(@, <<acc.type_fields_by_name[field_key][1],
                                              executor_name, field_key>>)]
        ELSE [acc EXCEPT !.type_fields_by_name =
                             @ @@ (field_key :> <<executor_name, Len(current_fields)>>),
                         !.types[ti].fields = Some(<<field>> \o current_fields)]

\* mutant of merge_field: an accepted repeat is pushed again and takes over
\* the index entry
merge_field_repeat(acc, ti, executor_name, schema_type, field) ==
    LET key == type_key(schema_type)
        field_key == <<key[1], key[2], field.name>>
        current_type == acc.types[ti]
        current_fields == IF current_type.fields = None THEN <<>> ELSE current_type.fields[1]
    IN  IF field_key \in DOMAIN acc.type_fields_by_name
           /\ ~whitelisted(current_type, schema_type, field)
        THEN [acc EXCEPT !.types[ti].fields = Some(current_fields),
                         !.duplicate_object_fields =
                             Append(@, <<acc.type_fields_by_name[field_key][1],
                                         executor_name, field_key>>)]
        ELSE [acc EXCEPT !.type_fields_by_name =
                             (field_key :> <<executor_name, Len(current_fields)>>) @@ @,
                         !.types[ti].fields = Some(Append(current_fields, field))]

\* gateway.rs 158-185: one iteration of `for field in fields`
merge_field(acc, ti, executor_name, schema_type, field) ==
    LET key == type_key(schema_type)
        field_key == <<key[1], key[2], field.name>>
        current_type == acc.types[ti]
        current_fields == IF current_type.fields = None THEN <<>> ELSE current_type.fields[1]
    IN  IF field_key \in DOMAIN acc.type_fields_by_name
        THEN IF whitelisted(current_type, schema_type, field)
             THEN [acc EXCEPT !.types[ti].fields = Some(current_fields)]
             ELSE [acc EXCEPT !.types[ti].fields = Some(current_fields),
                              !.duplicate_object_fields =
                                  Append(@, <<acc.type_fields_by_name[field_key][1],
                                              executor_name, field_key>>)]
        ELSE [acc EXCEPT !.type_fields_by_name =
                             @ @@ (field_key :> <<executor_name, Len(current_fields)>>),
                         !.types[ti].fields = Some(Append(current_fields, field))]

RECURSIVE merge_fields(_, _, _, _, _, _)
merge_fields(acc, ti, executor_name, schema_type, fields, i) ==
    IF i > Len(fields) THEN acc
    ELSE Eager(acc, merge_fields(merge_field(acc, ti, executor_name, schema_type, fields[i]),
                                 ti, executor_name, schema_type, fields, i + 1))

\* gateway.rs 140-150: one iteration of `for possible_type in possible_types`
merge_possible_type(acc, ti, schema_type, possible_type) ==
    LET possible_type_key == <<type_key(schema_type), possible_type>>
        current == IF acc.types[ti].possible_types = None THEN <<>>
                   ELSE acc.types[ti].possible_types[1]
    IN  IF possible_type_key \in acc.possible_types_by_name
        THEN [acc EXCEPT !.types[ti].possible_types = Some(current)]
        ELSE [acc EXCEPT !.possible_types_by_name = @ \cup {possible_type_key},
                         !.types[ti].possible_types = Some(Append(current, possible_type))]

RECURSIVE merge_possible_types(_, _, _, _, _)
merge_possible_types(acc, ti, schema_type, possible_types, i) ==
    IF i > Len(possible_types) THEN acc
    ELSE Eager(acc, merge_possible_types(
                        merge_possible_type(acc, ti, schema_type, possible_types[i]),
                        ti, schema_type, possible_types, i + 1))

\* gateway.rs 114-188: one iteration of `for schema_type in schema.types.iter()`
merge_type(acc, executor_name, schema_type) ==
    LET key == type_key(schema_type)
        seen == key \in DOMAIN acc.types_by_name
        acc1 == IF seen THEN acc
                ELSE [acc EXCEPT !.types_by_name = @ @@ (key :> Len(acc.types)),
                                 !.types = Append(@, [schema_type EXCEPT !.fields = None,
                                                                         !.possible_types = None])]
        ti == acc1.types_by_name[key] + 1
        acc2 == IF schema_type.possible_types = None THEN acc1
                ELSE LET a == merge_possible_types(acc1, ti, schema_type,
                                                   schema_type.possible_types[1], 1)
                     IN  [a EXCEPT !.types[ti].possible_types =
                                       IF @ = None THEN Some(<<>>) ELSE @]
    IN  IF schema_type.fields = None THEN acc2
        ELSE LET acc3 == merge_fields(acc2, ti, executor_name, schema_type,
                                      schema_type.fields[1], 1)
             IN  [acc3 EXCEPT !.types[ti].fields = IF @ = None THEN Some(<<>>) ELSE @]

RECURSIVE merge_types(_, _, _, _)
merge_types(acc, executor_name, types, i) ==
    IF i > Len(types) THEN acc
    ELSE Eager(acc, merge_types(merge_type(acc, executor_name, types[i]),
                                executor_name, types, i + 1))

RECURSIVE merge_schemas(_, _, _, _)
merge_schemas(acc, schemas, order, i) ==
    IF i > Len(order) THEN acc
    ELSE Eager(acc, merge_schemas(
                        merge_types(acc, order[i], SchemaOf(schemas[order[i]]).types, 1),
                        schemas, order, i + 1))

\* GatewaySchema::default()
DefaultSchema ==
    [types |-> <<>>, query_type |-> None, mutation_type |-> None,
     types_by_name |-> <<>>, type_fields_by_name |-> <<>>]

\* schemas: executor name -> the schema it introspected to; the result is
\* Ok(GatewaySchema) or Err(DuplicateObjectFields(list))
create_schema(schemas, order) ==
    LET m == merge_schemas(EmptyMerge, schemas, order, 1)
    IN  IF m.duplicate_object_fields # <<>>
        THEN [ok |-> FALSE, err |-> "DuplicateObjectFields",
              fields |-> m.duplicate_object_fields, schema |-> DefaultSchema]
        ELSE [ok |-> TRUE, err |-> "", fields |-> <<>>,
              schema |-> [types |-> m.types,
                          query_type |-> IF <<"Object", "Query">> \in DOMAIN m.types_by_name
                                         THEN Some("Query") ELSE None,
                          mutation_type |-> IF <<"Object", "Mutation">> \in DOMAIN m.types_by_name
                                            THEN Some("Mutation") ELSE None,
                          types_by_name |-> m.types_by_name,
                          type_fields_by_name |-> m.type_fields_by_name]]

\* gateway.rs 225-259: the printable document of the merged schema: one
\* definition per type that is no meta type and no scalar, then the schema
\* definition
create_document(s) ==
    [definitions |-> SelectSeq([i \in 1..Len(s.types) |-> type_key(s.types[i])],
                               LAMBDA k : ~starts_with_underscores(k[2]) /\ k[1] # "Scalar"),
     query |-> IF \E i \in 1..Len(s.types) : s.types[i].name = "Query"
               THEN Some("Query") ELSE None,
     mutation |-> IF \E i \in 1..Len(s.types) : s.types[i].name = "Mutation"
                  THEN Some("Mutation") ELSE None]

(***************************************************************************)
(* Context lookups over the merged schema s (context.rs 27-61).            *)
(***************************************************************************)
object_by_kind(s, kind, name) ==
    IF <<kind, name>> \in DOMAIN s.types_by_name
       /\ s.types_by_name[<<kind, name>>] + 1 \in DOMAIN s.types
    THEN Some(s.types[s.types_by_name[<<kind, name>>] + 1])
    ELSE None

object(s, name) == object_by_kind(s, "Object", name)

\* Some(<<owner executor, field>>) or None
field(s, object_type, name) ==
    LET o == object_by_kind(s, object_type.kind, object_type.name)
        key == <<object_type.kind, object_type.name, name>>
    IN  IF o = None \/ o[1].fields = None THEN None
        ELSE IF key \notin DOMAIN s.type_fields_by_name THEN None
        ELSE LET e == s.type_fields_by_name[key]
             IN  IF e[2] + 1 \in DOMAIN o[1].fields[1]
                 THEN Some(<<e[1], o[1].fields[1][e[2] + 1]>>)
                 ELSE None

\* Some(<<owner executor, final type of the field>>) or None
field_object_type(s, object_type, name) ==
    LET f == field(s, object_type, name)
    IN  IF f = None THEN None
        ELSE LET t == object_by_kind(s, field_type(f[1][2]).kind, field_type(f[1][2]).name)
             IN  IF t = None THEN None ELSE Some(<<f[1][1], t[1]>>)


(***************************************************************************)
(* The gateway (gateway.rs 36-90).  A gateway value g holds the four       *)
(* fields of struct Gateway; executors maps a registered name to the       *)
(* schema its executor currently introspects to ("Down": introspect()      *)
(* returns Err).                                                           *)
(***************************************************************************)
ExecutorNames == {"account", "review", "account_plus"}

VersionsOf(name) ==
    CASE name = "account" -> {"Acc"}
      [] name = "review" -> {"Rev", "RevUpdated", "Down"}
      [] name = "account_plus" -> {"Acc"}
      [] name = "product" -> {"Prod"}
      [] name = "inventory" -> {"Inv"}

\* the schemas a host submits to validate under a name
SchemaVersions(name) == VersionsOf(name) \ {"Down"}

DefaultDocument == [definitions |-> <<>>, query |-> None, mutation |-> None]

\* Gateway::default()
DefaultGateway ==
    [executors |-> <<>>, introspections |-> <<>>, schema |-> DefaultSchema,
     document |-> DefaultDocument]

Gw == [executors |-> executors, introspections |-> introspections,
       schema |-> schema, document |-> document]

NoResult == [ok |-> TRUE, err |-> "", fields |-> <<>>]

Result(r) == [ok |-> r.ok, err |-> r.err, fields |-> r.fields]

Error(e) == [ok |-> FALSE, err |-> e, fields |-> <<>>]

\* HashMap::insert
insert(map, key, value) == (key :> value) @@ map

\* executor starting the map of executors afresh
executor_alone(g, name, v) == [g EXCEPT !.executors = (name :> v)]

\* gateway.rs 45-48
executor(g, name, v) == [g EXCEPT !.executors = insert(@, name, v)]

\* gateway.rs 51-57: the introspections of the executors that answered
introspect_all(g) ==
    [n \in {m \in DOMAIN g.executors : g.executors[m] # "Down"} |-> g.executors[n]]

\* gateway.rs 50-63.  build consumes the gateway: on Err the value is gone
\* and the host starts again from Gateway::default().
build(g, order) ==
    LET intro == introspect_all(g)
        r == create_schema(intro, order)
    IN  IF r.ok
        THEN [g |-> [g EXCEPT !.introspections = intro, !.schema = r.schema,
                              !.document = create_document(r.schema)],
              res |-> Result(r), inputs |-> intro]
        ELSE [g |-> DefaultGateway, res |-> Result(r), inputs |-> intro]

\* mutant of tentative: an entry already cached is kept (or_insert for insert)
tentative_keeps_old(g, name, v) ==
    IF name \in DOMAIN g.introspections THEN g.introspections
    ELSE insert(g.introspections, name, v)

\* gateway.rs 74-75 and 84-85: the cached introspections with one replaced
tentative(g, name, v) == insert(g.introspections, name, v)

\* mutant of pull: the fresh introspection is inserted into the cache itself,
\* not into a clone of it
pull_in_place(g, name, order) ==
    IF name \notin DOMAIN g.executors
    THEN [g |-> g, res |-> Error("UnknownExecutor"), inputs |-> <<>>]
    ELSE IF g.executors[name] = "Down"
    THEN [g |-> g, res |-> Error("Custom"), inputs |-> <<>>]
    ELSE LET intro == tentative(g, name, g.executors[name])
             r == create_schema(intro, order)
         IN  IF r.ok
             THEN [g |-> [g EXCEPT !.schema = r.schema,
                                   !.document = create_document(r.schema),
                                   !.introspections = intro],
                   res |-> Result(r), inputs |-> intro]
             ELSE [g |-> [g EXCEPT !.introspections = intro],
                   res |-> Result(r), inputs |-> intro]

\* gateway.rs 65-81
pull(g, name, order) ==
    IF name \notin DOMAIN g.executors
    THEN [g |-> g, res |-> Error("UnknownExecutor"), inputs |-> <<>>]
    ELSE IF g.executors[name] = "Down"
    THEN [g |-> g, res |-> Error("Custom"), inputs |-> <<>>]
    ELSE LET intro == tentative(g, name, g.executors[name])
             r == create_schema(intro, order)
         IN  IF r.ok
             THEN [g |-> [g EXCEPT !.schema = r.schema,
                                   !.document = create_document(r.schema),
                                   !.introspections = intro],
                   res |-> Result(r), inputs |-> intro]
             ELSE [g |-> g, res |-> Result(r), inputs |-> intro]

\* mutant of validate: a schema that validates is kept in the cache
validate_keeps(g, name, v, order) ==
    LET intro == tentative(g, name, v)
        r == create_schema(intro, order)
    IN  [g |-> IF r.ok THEN [g EXCEPT !.introspections = intro] ELSE g,
         res |-> Result(r), inputs |-> intro]

\* gateway.rs 83-89
validate(g, name, v, order) ==
    LET intro == tentative(g, name, v)
        r == create_schema(intro, order)
    IN  [g |-> g, res |-> Result(r), inputs |-> intro]

(***************************************************************************)
(* JSON values (serde_json::Value) as tagged records.  An object holds its *)
(* entries as a sequence of <<key, value>> pairs in insertion order, the   *)
(* order the specification fixes for the JSON value type; Map::insert on   *)
(* a key already present replaces the value where it stands.               *)
(***************************************************************************)
JNull == [t |-> "null", v |-> ""]

JStr(s) == [t |-> "str", v |-> s]

JBool(b) == [t |-> "bool", v |-> b]

JArr(values) == [t |-> "arr", v |-> values]

JObj(map) == [t |-> "obj", v |-> map]

map_keys(map) == [i \in DOMAIN map |-> map[i][1]]

\* Map::get
map_get(map, key) ==
    IF \E i \in DOMAIN map : map[i][1] = key
    THEN Some(map[CHOOSE i \in DOMAIN map : map[i][1] = key][2])
    ELSE None

\* Map::insert
map_insert(map, key, value) ==
    IF \E i \in DOMAIN map : map[i][1] = key
    THEN [i \in DOMAIN map |-> IF map[i][1] = key THEN <<key, value>> ELSE map[i]]
    ELSE Append(map, <<key, value>>)

\* Map::extend: insert every entry of b, in b's order
RECURSIVE map_extend(_, _, _)
map_extend(map, b, i) ==
    IF i > Len(b) THEN map
    ELSE Eager(map, map_extend(map_insert(map, b[i][1], b[i][2]), b, i + 1))

\* Value::get(&str): None on anything but an object
value_get(value, key) == IF value.t = "obj" THEN map_get(value.v, key) ELSE None

\* Value::get(usize): None on anything but an array
value_get_index(value, i) ==
    IF value.t = "arr" /\ i + 1 \in DOMAIN value.v THEN Some(value.v[i + 1]) ELSE None

(***************************************************************************)
(* The query AST (graphql_parser::query).  One record shape serves the     *)
(* three kinds of Selection; position 0 is Pos::default().                 *)
(***************************************************************************)
Field(name, alias, arguments, items, position) ==
    [k |-> "Field", name |-> name, alias |-> alias, arguments |-> arguments,
     type_condition |-> None, items |-> items, position |-> position]

FragmentSpread(fragment_name, position) ==
    [k |-> "FragmentSpread", name |-> fragment_name, alias |-> None, arguments |-> <<>>,
     type_condition |-> None, items |-> <<>>, position |-> position]

InlineFragment(type_condition, items, position) ==
    [k |-> "InlineFragment", name |-> "", alias |-> None, arguments |-> <<>>,
     type_condition |-> type_condition, items |-> items, position |-> position]

FragmentDefinition(name, type_condition, items) ==
    [name |-> name, type_condition |-> type_condition, items |-> items]

\* AstValue::Variable and the literal values
Variable(name) == [var |-> TRUE, v |-> name]

Literal(v) == [var |-> FALSE, v |-> v]

VariableDefinition(name, var_type) == [name |-> name, var_type |-> var_type]

\* field.alias.as_ref().unwrap_or(&field.name)
response_name(f) == IF f.alias = None THEN f.name ELSE f.alias[1]

(***************************************************************************)
(* QueryError and QueryResult (query.rs 23-72).                            *)
(***************************************************************************)
QErr(kind, a, b) == [kind |-> kind, a |-> a, b |-> b, errors |-> <<>>, value |-> JNull]

QErrors(errors) == [kind |-> "Errors", a |-> "", b |-> "", errors |-> errors, value |-> JNull]

QExecutor(value) == [kind |-> "Executor", a |-> "", b |-> "", errors |-> <<>>, value |-> value]

QueryPosError(position, error) == [position |-> position, error |-> error]

NoError == QErr("", "", "")

Ok(v) == [ok |-> TRUE, v |-> v, err |-> NoError]

Err(e) == [ok |-> FALSE, v |-> <<>>, err |-> e]

(***************************************************************************)
(* Type::is_interface and Type::is_node.  The schema module of this        *)
(* version of the crate defines them; is_node follows the convention the   *)
(* specification settles on: the type implements an interface named Node.  *)
(***************************************************************************)
is_interface(t) == t.kind = "Interface"

is_node(t) == t.interfaces # None /\ "Node" \in Range(t.interfaces[1])

(***************************************************************************)
(* The planner (query.rs 620-968).  ctx is the request Context: the merged *)
(* schema, the fragments and variable definitions of the client document   *)
(* and the client variables.                                               *)
(***************************************************************************)
\* fragment_target taking only the first selection of a named fragment
fragment_target_first_only(ctx, selection) ==
    LET missing == selection.k = "FragmentSpread" /\ selection.name \notin DOMAIN ctx.fragments
        unconditioned == selection.k = "InlineFragment" /\ selection.type_condition = None
        on == IF selection.k = "FragmentSpread"
              THEN ctx.fragments[selection.name].type_condition
              ELSE selection.type_condition[1]
        items == IF selection.k = "FragmentSpread"
                 THEN SubSeq(ctx.fragments[selection.name].items, 1, 1)
                 ELSE selection.items
        fail(e) == [ok |-> FALSE, object_type |-> <<>>, items |-> <<>>,
                    error |-> QueryPosError(selection.position, e)]
    IN  IF missing THEN fail(QErr("UnknownFragment", selection.name, ""))
        ELSE IF unconditioned THEN fail(QErr("MissingTypeConditionInlineFragment", "", ""))
        ELSE IF object(ctx.schema, on) = None THEN fail(QErr("TypeNameNotExists", on, ""))
        ELSE [ok |-> TRUE, object_type |-> object(ctx.schema, on)[1], items |-> items,
              error |-> QueryPosError(0, NoError)]

\* the lookups every selection loop makes on a FragmentSpread (query.rs
\* 264-286, 675-697, 866-888) or an InlineFragment (301-323, 713-735,
\* 914-936): the object type and the selections to recurse into, or the error
fragment_target(ctx, selection) ==
    LET missing == selection.k = "FragmentSpread" /\ selection.name \notin DOMAIN ctx.fragments
        unconditioned == selection.k = "InlineFragment" /\ selection.type_condition = None
        on == IF selection.k = "FragmentSpread"
              THEN ctx.fragments[selection.name].type_condition
              ELSE selection.type_condition[1]
        items == IF selection.k = "FragmentSpread"
                 THEN ctx.fragments[selection.name].items
                 ELSE selection.items
        fail(e) == [ok |-> FALSE, object_type |-> <<>>, items |-> <<>>,
                    error |-> QueryPosError(selection.position, e)]
    IN  IF missing THEN fail(QErr("UnknownFragment", selection.name, ""))
        ELSE IF unconditioned THEN fail(QErr("MissingTypeConditionInlineFragment", "", ""))
        ELSE IF object(ctx.schema, on) = None THEN fail(QErr("TypeNameNotExists", on, ""))
        ELSE [ok |-> TRUE, object_type |-> object(ctx.schema, on)[1], items |-> items,
              error |-> QueryPosError(0, NoError)]

\* the executors of more that list does not hold yet, pushed in order
push_new(list, more) ==
    list \o SelectSeq(more, LAMBDA e : e \notin Range(list))

RECURSIVE resolve_executors(_, _, _, _)

\* resolve_executors_selection not looking at the data at hand
resolve_executors_selection_blind(ctx, object_type, data, selection, acc) ==
    IF selection.k = "Field"
    THEN IF starts_with_underscores(selection.name) THEN acc
         ELSE LET fot == field_object_type(ctx.schema, object_type, selection.name)
                  field_data == None
              IN  IF fot = None
                  THEN [acc EXCEPT !.errors = Append(@, QueryPosError(selection.position,
                            QErr("FieldNotFound", object_type.name, selection.name)))]
                  ELSE IF is_interface(fot[1][2])
                  THEN LET r == resolve_executors(ctx, fot[1][2], data, selection.items)
                       IN  IF r.ok THEN [acc EXCEPT !.executors = push_new(@, r.v)]
                           ELSE [acc EXCEPT !.err = Some(r.err)]
                  ELSE IF fot[1][1] \notin Range(acc.executors) /\ field_data = None
                  THEN [acc EXCEPT !.executors = Append(@, fot[1][1])]
                  ELSE acc
    ELSE LET t == fragment_target(ctx, selection)
         IN  IF ~t.ok THEN [acc EXCEPT !.errors = Append(@, t.error)]
             ELSE LET r == resolve_executors(ctx, t.object_type, data, t.items)
                  IN  IF r.ok THEN [acc EXCEPT !.executors = push_new(@, r.v)]
                      ELSE [acc EXCEPT !.err = Some(r.err)]

\* query.rs 630-755: one iteration of `for selection in selections`; acc
\* holds executors and errors, and err the Err a `?` returned with
resolve_executors_selection(ctx, object_type, data, selection, acc) ==
    IF selection.k = "Field"
    THEN IF starts_with_underscores(selection.name) THEN acc
         ELSE LET fot == field_object_type(ctx.schema, object_type, selection.name)
                  field_data == IF data = None THEN None
                                ELSE value_get(data[1], response_name(selection))
              IN  IF fot = None
                  THEN [acc EXCEPT !.errors = Append(@, QueryPosError(selection.position,
                            QErr("FieldNotFound", object_type.name, selection.name)))]
                  ELSE IF is_interface(fot[1][2])
                  THEN LET r == resolve_executors(ctx, fot[1][2], data, selection.items)
                       IN  IF r.ok THEN [acc EXCEPT !.executors = push_new(@, r.v)]
                           ELSE [acc EXCEPT !.err = Some(r.err)]
                  ELSE IF fot[1][1] \notin Range(acc.executors) /\ field_data = None
                  THEN [acc EXCEPT !.executors = Append(@, fot[1][1])]
                  ELSE acc
    ELSE LET t == fragment_target(ctx, selection)
         IN  IF ~t.ok THEN [acc EXCEPT !.errors = Append(@, t.error)]
             ELSE LET r == resolve_executors(ctx, t.object_type, data, t.items)
                  IN  IF r.ok THEN [acc EXCEPT !.executors = push_new(@, r.v)]
                      ELSE [acc EXCEPT !.err = Some(r.err)]

RECURSIVE resolve_executors_loop(_, _, _, _, _, _)
resolve_executors_loop(ctx, object_type, data, selections, i, acc) ==
    IF i > Len(selections) \/ acc.err # None THEN acc
    ELSE Eager(acc, resolve_executors_loop(ctx, object_type, data, selections, i + 1,
                        resolve_executors_selection(ctx, object_type, data, selections[i], acc)))

\* resolve_executors handing the executors out last referenced first
resolve_executors_last_first(ctx, object_type, data, selections) ==
    LET acc == resolve_executors_loop(ctx, object_type, data, selections, 1,
                                      [executors |-> <<>>, errors |-> <<>>, err |-> None])
    IN  IF acc.err # None THEN Err(acc.err[1])
        ELSE IF acc.errors = <<>>
        THEN Ok([k \in DOMAIN acc.executors |->
                    acc.executors[Len(acc.executors) + 1 - k]])
        ELSE Err(QErrors(acc.errors))

\* query.rs 620-762; data is None or Some(value)
resolve_executors(ctx, object_type, data, selections) ==
    LET acc == resolve_executors_loop(ctx, object_type, data, selections, 1,
                                      [executors |-> <<>>, errors |-> <<>>, err |-> None])
    IN  IF acc.err # None THEN Err(acc.err[1])
        ELSE IF acc.errors = <<>> THEN Ok(acc.executors)
        ELSE Err(QErrors(acc.errors))

\* selection_field_id handing out the gateway's own id field whatever the
\* client selected
selection_field_id_synthetic(selections) ==
    Field("id", None, <<>>, <<>>, 0)

\* query.rs 776-798: the client's own id field, or the synthetic one
selection_field_id(selections) ==
    LET ids == SelectSeq(selections, LAMBDA x : x.k = "Field" /\ x.name = "id")
    IN  IF ids # <<>> THEN ids[1] ELSE Field("id", None, <<>>, <<>>, 0)

\* query.rs 833-843: the definitions of the variables the arguments of the
\* field use, keyed by the name of the argument
field_variable_definitions(ctx, selection) ==
    LET used == {i \in DOMAIN selection.arguments :
                     /\ selection.arguments[i][2].var
                     /\ selection.arguments[i][2].v \in DOMAIN ctx.variable_definitions}
        names == {selection.arguments[i][1] : i \in used}
        \* collect() keeps the last entry of a repeated key
        lastOf(n) == CHOOSE i \in used :
                         /\ selection.arguments[i][1] = n
                         /\ \A j \in used : selection.arguments[j][1] = n => j <= i
    IN  [n \in names |-> ctx.variable_definitions[selection.arguments[lastOf(n)][2].v]]

ResolveInfo(selections, fragments, variable_definitions) ==
    [selections |-> selections, fragments |-> fragments,
     variable_definitions |-> variable_definitions]

RECURSIVE resolve_executor(_, _, _, _)

\* query.rs 803-957: one iteration of `for selection in selections`
resolve_executor_selection(ctx, object_type, executor_name, selection, acc) ==
    IF selection.k = "Field"
    THEN IF selection.name = "id" THEN acc
         ELSE LET fot == field_object_type(ctx.schema, object_type, selection.name)
              IN  IF fot = None
                  THEN [acc EXCEPT !.errors = Append(@, QueryPosError(selection.position,
                            QErr("FieldNotFound", object_type.name, selection.name)))]
                  ELSE IF ~is_interface(fot[1][2]) /\ executor_name # fot[1][1] THEN acc
                  ELSE IF selection.items = <<>>
                  THEN [acc EXCEPT !.items = Append(@, selection),
                                   !.variable_definitions =
                                       field_variable_definitions(ctx, selection) @@ @]
                  ELSE LET result == resolve_executor(ctx, fot[1][2], selection.items,
                                                      executor_name)
                       IN  IF ~result.ok THEN [acc EXCEPT !.err = Some(result.err)]
                           ELSE IF result.v.selections = <<>>
                                   /\ DOMAIN result.v.fragments = {}
                           THEN acc
                           ELSE [acc EXCEPT
                                    !.items = Append(@, [selection EXCEPT
                                                  !.items = result.v.selections]),
                                    !.fragments = result.v.fragments @@ @,
                                    !.variable_definitions =
                                        field_variable_definitions(ctx, selection)
                                            @@ (result.v.variable_definitions @@ @)]
    ELSE LET t == fragment_target(ctx, selection)
         IN  IF ~t.ok THEN [acc EXCEPT !.errors = Append(@, t.error)]
             ELSE LET resolve_info == resolve_executor(ctx, t.object_type, t.items,
                                                       executor_name)
                  IN  IF ~resolve_info.ok THEN [acc EXCEPT !.err = Some(resolve_info.err)]
                      ELSE IF Len(resolve_info.v.selections) <= 1 THEN acc
                      ELSE IF selection.k = "InlineFragment"
                      THEN [acc EXCEPT
                               !.items = Append(@, [selection EXCEPT
                                             !.items = resolve_info.v.selections]),
                               !.fragments = resolve_info.v.fragments @@ @,
                               !.variable_definitions =
                                   resolve_info.v.variable_definitions @@ @]
                      ELSE IF selection.name \in DOMAIN acc.fragments
                      THEN [acc EXCEPT !.items = Append(@, selection)]
                      ELSE [acc EXCEPT
                               !.items = Append(@, selection),
                               !.fragments = resolve_info.v.fragments
                                   @@ ((selection.name :>
                                          [ctx.fragments[selection.name] EXCEPT
                                              !.items = resolve_info.v.selections]) @@ @),
                               !.variable_definitions =
                                   resolve_info.v.variable_definitions @@ @]

RECURSIVE resolve_executor_loop(_, _, _, _, _, _)
resolve_executor_loop(ctx, object_type, executor_name, selections, i, acc) ==
    IF i > Len(selections) \/ acc.err # None THEN acc
    ELSE Eager(acc, resolve_executor_loop(ctx, object_type, executor_name, selections, i + 1,
                        resolve_executor_selection(ctx, object_type, executor_name,
                                                   selections[i], acc)))

\* resolve_executor handing out the client's selections of this level as they
\* are, whoever owns them
resolve_executor_unfiltered(ctx, object_type, selections, executor_name) ==
    LET first == IF selections # <<>> /\ is_node(object_type)
                 THEN <<selection_field_id(selections)>> ELSE <<>>
        acc == resolve_executor_loop(ctx, object_type, executor_name, selections, 1,
                   [items |-> first, fragments |-> <<>>, variable_definitions |-> <<>>,
                    errors |-> <<>>, err |-> None])
    IN  IF acc.err # None THEN Err(acc.err[1])
        ELSE IF acc.errors = <<>>
        THEN Ok(ResolveInfo(first \o SelectSeq(selections,
                                               LAMBDA x : ~(x.k = "Field" /\ x.name = "id")),
                            acc.fragments, acc.variable_definitions))
        ELSE Err(QErrors(acc.errors))

\* query.rs 764-968
resolve_executor(ctx, object_type, selections, executor_name) ==
    LET first == IF selections # <<>> /\ is_node(object_type)
                 THEN <<selection_field_id(selections)>> ELSE <<>>
        acc == resolve_executor_loop(ctx, object_type, executor_name, selections, 1,
                   [items |-> first, fragments |-> <<>>, variable_definitions |-> <<>>,
                    errors |-> <<>>, err |-> None])
    IN  IF acc.err # None THEN Err(acc.err[1])
        ELSE IF acc.errors = <<>>
        THEN Ok(ResolveInfo(acc.items, acc.fragments, acc.variable_definitions))
        ELSE Err(QErrors(acc.errors))

(***************************************************************************)
(* The upstream services, after the toy executors of tests/common.rs: what *)
(* Executor::execute answers to a document.  up holds the executor's name, *)
(* its schema, the fragments and variables of the request and mode, the    *)
(* way the service answers `nodes`:                                        *)
(*   "toy"       one entry per id, in the order of ids (tests/common.rs);  *)
(*   "unknown"   the same, and the service has no record of LostId: null;  *)
(*   "reversed"  one entry per id, in the reverse order of ids;            *)
(*   "short"     no record of LostId, and no entry for an id without one.  *)
(* Ids are opaque to the gateway; "" stands for no entity (null).          *)
(***************************************************************************)
Modes == {"toy", "unknown", "reversed", "short"}

LostId == "U1"

IdType(id) ==
    CASE id \in {"U0", "U1", "U10"} -> "User"
      [] id \in {"R0", "R1", "R2"} -> "Review"
      [] id \in {"P0", "P1"} -> "Product"
      [] OTHER -> ""

\* tests/common.rs: USERS, PRODUCTS and REVIEWS hold the entities of account,
\* product, inventory and review; review answers for any User or Product id
knows(up, id) ==
    /\ ~(up.mode \in {"unknown", "short"} /\ up.executor = "review" /\ id = LostId)
    /\ CASE up.executor = "account" -> id \in {"U0", "U1"}
         [] up.executor = "review" -> IdType(id) # ""
         [] up.executor \in {"product", "inventory"} -> id \in {"P0", "P1"}
         [] OTHER -> FALSE

up_scalar(id, name) ==
    CASE name = "id" -> JStr(id)
      [] name = "email" -> IF id = "U0" THEN JStr("john@doe.com") ELSE JNull
      [] name = "username" -> IF id = "U1" THEN JStr("albert") ELSE JNull
      [] name = "body" -> JStr(CASE id = "R0" -> "Good product"
                                 [] id = "R1" -> "Bad product"
                                 [] OTHER -> "Fake description")
      [] name = "name" -> JStr(IF id = "P0" THEN "Product 1" ELSE "Product 2")
      [] name = "inStock" -> JBool(id = "P0")
      [] OTHER -> JNull

\* the value of an argument: the literal, or the variable's value
argument(up, selection, name) ==
    LET args == SelectSeq(selection.arguments, LAMBDA a : a[1] = name)
    IN  IF args = <<>> THEN JNull
        ELSE IF ~args[1][2].var THEN args[1][2].v
        ELSE IF value_get(up.variables, args[1][2].v) = None THEN JNull
        ELSE value_get(up.variables, args[1][2].v)[1]

\* the entity an object-typed field leads to
up_object(up, id, selection) ==
    CASE selection.name \in {"viewer", "signIn"} -> "U0"
      [] selection.name = "author" -> IF id = "R2" THEN "U1" ELSE "U0"
      [] selection.name = "product" -> IF id = "R1" THEN "P1" ELSE "P0"
      [] selection.name \in {"node", "addProduct"} ->
            LET a == argument(up, selection, "id")
            IN  IF a.t = "str" /\ knows(up, a.v) THEN a.v ELSE ""
      [] OTHER -> ""

Reverse(s) == [i \in DOMAIN s |-> s[Len(s) + 1 - i]]

\* the entities a list-typed field leads to
up_list(up, id, selection) ==
    CASE selection.name = "users" -> <<"U0", "U1">>
      [] selection.name = "products" -> <<"P0", "P1">>
      [] selection.name = "reviews" ->
            CASE id = "U0" -> <<"R0", "R1">>
              [] id = "U1" -> <<"R2">>
              [] id = "P0" -> <<"R0", "R2">>
              [] id = "P1" -> <<"R1">>
              [] OTHER -> <<>>
      [] selection.name = "nodes" ->
            LET a == argument(up, selection, "ids")
                ids == IF a.t = "arr" THEN [i \in DOMAIN a.v |-> a.v[i].v] ELSE <<>>
                entries == [i \in DOMAIN ids |-> IF knows(up, ids[i]) THEN ids[i] ELSE ""]
            IN  CASE up.mode = "reversed" -> Reverse(entries)
                  [] up.mode = "short" -> SelectSeq(entries, LAMBDA e : e # "")
                  [] OTHER -> entries
      [] OTHER -> <<>>

RECURSIVE is_list(_)
is_list(t) == t.kind = "List" \/ (t.kind = "NonNull" /\ is_list(t.of_type[1]))

\* the type named name in the executor's own schema, or None
up_type(up, name) ==
    LET found == SelectSeq(up.schema.types, LAMBDA t : t.name = name)
    IN  IF found = <<>> THEN None ELSE Some(found[1])

\* the declaration of the field in the executor's own schema, or None
up_field_def(up, type_name, name) ==
    LET t == up_type(up, type_name)
        found == IF t = None \/ t[1].fields = None THEN <<>>
                 ELSE SelectSeq(t[1].fields[1], LAMBDA f : f.name = name)
    IN  IF found = <<>> THEN None ELSE Some(found[1])

RECURSIVE up_selection_set(_, _, _, _, _)

RECURSIVE up_values(_, _, _, _, _)

\* the value of a selection set on the entity id ("": null)
up_entity(up, id, items) ==
    IF id = "" THEN Ok(JNull)
    ELSE LET r == up_selection_set(up, id, items, 1, Ok(<<>>))
         IN  IF r.ok THEN Ok(JObj(r.v)) ELSE r

up_values(up, ids, items, i, acc) ==
    IF i > Len(ids) \/ ~acc.ok THEN acc
    ELSE LET r == up_entity(up, ids[i], items)
         IN  Eager(acc, up_values(up, ids, items, i + 1,
                                  IF r.ok THEN Ok(Append(acc.v, r.v)) ELSE r))

UpError == Err(QErr("upstream", "", ""))

\* a field of the entity id of type type_name: validated against the
\* executor's schema, then resolved
up_field(up, type_name, id, selection) ==
    LET def == up_field_def(up, type_name, selection.name)
    IN  IF def = None THEN UpError
        ELSE IF field_type(def[1]).kind = "Scalar"
        THEN IF selection.items # <<>> THEN UpError
             ELSE Ok(up_scalar(id, selection.name))
        ELSE IF selection.items = <<>> THEN UpError
        ELSE IF is_list(def[1].type)
        THEN LET r == up_values(up, up_list(up, id, selection), selection.items, 1, Ok(<<>>))
             IN  IF r.ok THEN Ok(JArr(r.v)) ELSE r
        ELSE up_entity(up, up_object(up, id, selection), selection.items)

\* whether a fragment on type on applies to an entity of type type_name
up_applies(up, on, type_name) ==
    \/ on = type_name
    \/ /\ up_type(up, on)[1].kind = "Interface"
       /\ up_type(up, type_name)[1].interfaces # None
       /\ on \in Range(up_type(up, type_name)[1].interfaces[1])

\* one selection of a selection set, its fields collected into acc.v
up_selection(up, id, selection, acc) ==
    LET type_name == IF id = "" THEN up.operation ELSE IdType(id)
    IN  IF selection.k = "Field"
        THEN LET r == up_field(up, type_name, id, selection)
             IN  IF r.ok THEN Ok(map_insert(acc.v, response_name(selection), r.v)) ELSE r
        ELSE IF selection.k = "FragmentSpread" /\ selection.name \notin DOMAIN up.fragments
        THEN UpError
        ELSE LET on == IF selection.k = "FragmentSpread"
                       THEN Some(up.fragments[selection.name].type_condition)
                       ELSE selection.type_condition
                 items == IF selection.k = "FragmentSpread"
                          THEN up.fragments[selection.name].items ELSE selection.items
             IN  IF items = <<>> THEN UpError
                 ELSE IF on # None /\ up_type(up, on[1]) = None THEN UpError
                 ELSE IF on # None /\ ~up_applies(up, on[1], type_name) THEN acc
                 ELSE up_selection_set(up, id, items, 1, acc)

up_selection_set(up, id, items, i, acc) ==
    IF i > Len(items) \/ ~acc.ok THEN acc
    ELSE Eager(acc, up_selection_set(up, id, items, i + 1,
                                     up_selection(up, id, items[i], acc)))

\* the variables a document refers to: in the arguments of the fields of
\* its selections at any depth, and of its fragments
RECURSIVE up_variables(_, _)
up_variables(fragments, items) ==
    UNION ({{items[k].arguments[a][2].v :
                a \in {b \in DOMAIN items[k].arguments : items[k].arguments[b][2].var}}
            \cup up_variables(<<>>, items[k].items) : k \in DOMAIN items}
           \cup {up_variables(<<>>, fragments[f].items) : f \in DOMAIN fragments})

\* Executor::execute (executor.rs 108-118) of the toy executors: the response
\* carries data, or errors when the document does not validate (with a null
\* data, or in mode "short" without data)
execute(up, selections) ==
    LET r == IF selections = <<>> THEN UpError
             ELSE IF ~(up_variables(up.fragments, selections)
                           \subseteq {d.name : d \in up.variable_definitions})
             THEN UpError
             ELSE up_selection_set(up, "", selections, 1, Ok(<<>>))
    IN  IF r.ok THEN JObj(<< <<"data", JObj(r.v)>> >>)
        ELSE IF up.mode = "short" THEN JObj(<< <<"errors", JArr(<<JStr("invalid")>>)>> >>)
        ELSE JObj(<< <<"data", JNull>>, <<"errors", JArr(<<JStr("invalid")>>)>> >>)

(***************************************************************************)
(* The resolver (query.rs 186-618, 970-1003).  Every operation that can    *)
(* reach an upstream service takes and returns st, the record of the       *)
(* request so far: calls, the documents sent upstream in the order they    *)
(* were sent, and fetches, the node-fetch steps that ran to their end.     *)
(***************************************************************************)
OkS(v, st) == [ok |-> TRUE, v |-> v, err |-> NoError, st |-> st]

ErrS(e, st) == [ok |-> FALSE, v |-> <<>>, err |-> e, st |-> st]

\* query.rs 983-1003
merge_value(a, b) ==
    IF a.t = "obj" /\ b.t = "obj" THEN JObj(map_extend(a.v, b.v, 1))
    ELSE IF a.t = "arr" /\ b.t = "arr"
    THEN JArr([i \in DOMAIN a.v |->
                  IF i \notin DOMAIN b.v THEN a.v[i]
                  ELSE IF a.v[i].t = "obj" /\ b.v[i].t = "obj"
                  THEN JObj(map_extend(a.v[i].v, b.v[i].v, 1))
                  ELSE JNull])
    ELSE b

\* query.rs 970-981
RECURSIVE merge_object(_, _, _)
merge_object(a, b, i) ==
    IF i > Len(b) THEN a
    ELSE Eager(a, merge_object(
                      IF map_get(a, b[i][1]) # None
                      THEN map_insert(a, b[i][1], merge_value(map_get(a, b[i][1])[1], b[i][2]))
                      ELSE map_insert(a, b[i][1], b[i][2]),
                      b, i + 1))

\* check_executor_response looking at data before errors
check_executor_response_data_first(res) ==
    IF value_get(res, "data") = None THEN Err(QErr("InvalidExecutorResponse", "", ""))
    ELSE IF value_get(res, "data")[1].t = "obj" THEN Ok(value_get(res, "data")[1].v)
    ELSE IF value_get(res, "errors") # None THEN Err(QExecutor(res))
    ELSE Err(QErr("InvalidExecutorResponse", "", ""))

\* query.rs 607-618
check_executor_response(res) ==
    IF value_get(res, "errors") # None THEN Err(QExecutor(res))
    ELSE IF value_get(res, "data") = None THEN Err(QErr("InvalidExecutorResponse", "", ""))
    ELSE IF value_get(res, "data")[1].t # "obj" THEN Err(QErr("InvalidExecutorResponse", "", ""))
    ELSE Ok(value_get(res, "data")[1].v)

\* the document and variables handed to Executor::execute, and the response
Call(executor_name, operation, name, resolve_info, selections, variable_definitions, variables) ==
    [executor |-> executor_name, operation |-> operation, name |-> name,
     selections |-> selections, fragments |-> resolve_info.fragments,
     variable_definitions |-> variable_definitions, variables |-> variables,
     response |-> JNull]

\* executor.execute(...).await: the call with what its executor answers
send(ctx, call) ==
    [call EXCEPT !.response =
        execute([executor |-> call.executor,
                 schema |-> SchemaOf(ctx.executors[call.executor]),
                 operation |-> call.operation,
                 variable_definitions |-> call.variable_definitions,
                 mode |-> ctx.mode, fragments |-> call.fragments,
                 variables |-> call.variables],
                call.selections)]

\* query.rs 367-428
get_executor_root_data(ctx, object_type, resolve_info, executor_name, st) ==
    IF executor_name \notin DOMAIN ctx.executors
    THEN ErrS(QErr("UnknownExecutor", executor_name, ""), st)
    ELSE With(send(ctx, Call(executor_name, object_type.name, ctx.operation_name,
                             resolve_info, resolve_info.selections,
                             Range(resolve_info.variable_definitions),
                             IF ctx.variables = None THEN JNull ELSE ctx.variables[1])),
              LAMBDA call :
                  With(check_executor_response(call.response),
                       LAMBDA r : [ok |-> r.ok, v |-> r.v, err |-> r.err,
                                   st |-> [st EXCEPT !.calls = Append(@, call)]]))

RECURSIVE get_root_data_loop(_, _, _, _, _, _)
\* query.rs 357-362: acc.v is map
get_root_data_loop(ctx, object_type, selections, missing, i, acc) ==
    IF i > Len(missing) \/ ~acc.ok THEN acc
    ELSE Eager(acc, get_root_data_loop(ctx, object_type, selections, missing, i + 1,
             With(resolve_executor(ctx, object_type, selections, missing[i]),
                  LAMBDA result :
                      IF ~result.ok THEN ErrS(result.err, acc.st)
                      ELSE With(get_executor_root_data(ctx, object_type, result.v,
                                                       missing[i], acc.st),
                                LAMBDA data :
                                    IF ~data.ok THEN data
                                    ELSE OkS(merge_object(acc.v, data.v, 1), data.st)))))

\* query.rs 349-365
get_root_data(ctx, object_type, selections, st) ==
    With(resolve_executors(ctx, object_type, None, selections),
         LAMBDA missing :
             IF ~missing.ok THEN ErrS(missing.err, st)
             ELSE With(get_root_data_loop(ctx, object_type, selections, missing.v, 1,
                                          OkS(<<>>, st)),
                       LAMBDA r : IF r.ok THEN OkS(JObj(r.v), r.st) ELSE r))

\* query.rs 485-498
field_id(resolve_info) ==
    LET ids == SelectSeq(resolve_info.selections,
                         LAMBDA x : x.k = "Field" /\ x.name = "id")
    IN  IF ids # <<>> THEN response_name(ids[1]) ELSE "id"

\* query.rs 500-519: None when a value carries no id
node_ids(data, key) ==
    LET values == IF data.t = "arr" THEN data.v ELSE <<data>>
    IN  IF \E i \in DOMAIN values : value_get(values[i], key) = None THEN None
        ELSE Some([i \in DOMAIN values |-> value_get(values[i], key)[1]])

\* query.rs 536-568: nodes(ids: $__gql_gateway_ids) { ... on T { selections } }
node_selections(object_type, resolve_info) ==
    << Field("nodes", None, << <<"ids", Variable("__gql_gateway_ids")>> >>,
             << InlineFragment(Some(object_type.name), resolve_info.selections, 0) >>, 0) >>

\* query.rs 570-578
node_variables(ctx, ids) ==
    LET variables == << <<"__gql_gateway_ids", JArr(ids)>> >>
    IN  IF ctx.variables # None /\ ctx.variables[1].t = "obj"
        THEN JObj(map_extend(variables, ctx.variables[1].v, 1))
        ELSE JObj(variables)

\* query.rs 475-605
get_executor_node_data(ctx, object_type, data, resolve_info, executor_name, st) ==
    LET ids == node_ids(data, field_id(resolve_info))
    IN  IF ids = None THEN ErrS(QErr("FieldIdNotFound", object_type.name, ""), st)
        ELSE IF executor_name \notin DOMAIN ctx.executors
        THEN ErrS(QErr("UnknownExecutor", executor_name, ""), st)
        ELSE With(send(ctx, Call(executor_name, "Query", "NodeQuery", resolve_info,
                                 node_selections(object_type, resolve_info),
                                 Range(resolve_info.variable_definitions)
                                     \cup {VariableDefinition("__gql_gateway_ids", "[ID]!")},
                                 node_variables(ctx, ids[1]))),
                  LAMBDA call :
                      With(check_executor_response(call.response),
                           LAMBDA r : [ok |-> r.ok, v |-> r.v, err |-> r.err,
                                       st |-> [st EXCEPT !.calls = Append(@, call)]]))

RECURSIVE get_node_data_loop(_, _, _, _, _, _, _)
\* query.rs 453-459: acc.v is map
get_node_data_loop(ctx, object_type, data, selections, missing, i, acc) ==
    IF i > Len(missing) \/ ~acc.ok THEN acc
    ELSE Eager(acc, get_node_data_loop(ctx, object_type, data, selections, missing, i + 1,
             With(resolve_executor(ctx, object_type, selections, missing[i]),
                  LAMBDA result :
                      IF ~result.ok THEN ErrS(result.err, acc.st)
                      ELSE With(get_executor_node_data(ctx, object_type, data, result.v,
                                                       missing[i], acc.st),
                                LAMBDA node_data :
                                    IF ~node_data.ok THEN node_data
                                    ELSE OkS(merge_object(acc.v, node_data.v, 1),
                                             node_data.st)))))

\* a node-fetch step that ran to its end: its inputs, the executors it
\* found missing, the calls it made, the nodes it joined and its result
Fetch(object_type, data, selections, missing, calls, node_data, out) ==
    [type |-> object_type.name, data |-> data, selections |-> selections,
     missing |-> missing, calls |-> calls, node_data |-> node_data, out |-> out]

\* query.rs 461-465
node_result(data, map) ==
    IF data.t = "arr" THEN map_get(map, "nodes")
    ELSE IF map_get(map, "nodes") = None THEN None
    ELSE value_get_index(map_get(map, "nodes")[1], 0)

\* query.rs 430-473
get_node_data(ctx, object_type, data, selections, st) ==
    LET first_data == IF data.t = "arr"
                      THEN IF data.v = <<>> THEN None ELSE Some(data.v[1])
                      ELSE Some(data)
    IN  IF ~is_node(object_type) THEN OkS(data, st)
        ELSE With(resolve_executors(ctx, object_type, first_data, selections),
             LAMBDA missing :
                 IF ~missing.ok THEN ErrS(missing.err, st)
                 ELSE IF missing.v = <<>> THEN OkS(data, st)
                 ELSE With(get_node_data_loop(ctx, object_type, data, selections,
                                              missing.v, 1, OkS(<<>>, st)),
                      LAMBDA r :
                          IF ~r.ok THEN r
                          ELSE IF node_result(data, r.v) = None
                          THEN ErrS(QErr("InvalidExecutorResponse", "", ""), r.st)
                          ELSE With(merge_value(data, node_result(data, r.v)[1]),
                               LAMBDA out :
                                   OkS(out, [r.st EXCEPT !.fetches = Append(@,
                                       Fetch(object_type, data, selections, missing.v,
                                             SubSeq(r.st.calls, Len(st.calls) + 1,
                                                    Len(r.st.calls)),
                                             node_result(data, r.v)[1], out))]))))

\* Context::schema_data: the merged schema as JSON (gateway.rs 212), each type
\* by its name
schema_data(ctx) ==
    JObj(<< <<"types", JArr([i \in DOMAIN ctx.schema.types |->
                                JObj(<< <<"name", JStr(ctx.schema.types[i].name)>> >>)])>> >>)

RECURSIVE resolve(_, _, _, _, _)

\* mutant of resolve_selection: the data found under the response name is
\* inserted under the name of the field (the alias dropped)
resolve_selection_unaliased(ctx, object_type, data, selection, acc) ==
    IF selection.k = "Field"
    THEN LET field_name == response_name(selection)
             is_schema == selection.name = "__schema"
             ft == IF is_schema THEN object(ctx.schema, "__Schema")
                   ELSE LET fot == field_object_type(ctx.schema, object_type, selection.name)
                        IN  IF fot = None THEN None ELSE Some(fot[1][2])
             field_data == IF is_schema THEN Some(schema_data(ctx))
                           ELSE value_get(data, field_name)
         IN  IF field_data = None
             THEN [acc EXCEPT !.errors = Append(@, QueryPosError(selection.position,
                       QErr("FieldDataNotFound", object_type.name, field_name)))]
             ELSE IF ft = None
             THEN [acc EXCEPT !.map = map_insert(@, selection.name, field_data[1])]
             ELSE With(resolve(ctx, ft[1], field_data[1], selection.items, acc.st),
                       LAMBDA r :
                           IF r.ok
                           THEN [acc EXCEPT !.map = map_insert(@, selection.name, r.v), !.st = r.st]
                           ELSE [acc EXCEPT !.err = Some(r.err), !.st = r.st])
    ELSE LET t == fragment_target(ctx, selection)
         IN  IF ~t.ok THEN [acc EXCEPT !.errors = Append(@, t.error)]
             ELSE With(resolve(ctx, t.object_type, data, t.items, acc.st),
                       LAMBDA r :
                           IF ~r.ok THEN [acc EXCEPT !.err = Some(r.err), !.st = r.st]
                           ELSE IF r.v.t = "obj"
                           THEN [acc EXCEPT !.map = map_extend(@, r.v.v, 1), !.st = r.st]
                           ELSE [acc EXCEPT !.st = r.st])

\* query.rs 218-338: one iteration of `for selection in selections`
resolve_selection(ctx, object_type, data, selection, acc) ==
    IF selection.k = "Field"
    THEN LET field_name == response_name(selection)
             is_schema == selection.name = "__schema"
             ft == IF is_schema THEN object(ctx.schema, "__Schema")
                   ELSE LET fot == field_object_type(ctx.schema, object_type, selection.name)
                        IN  IF fot = None THEN None ELSE Some(fot[1][2])
             field_data == IF is_schema THEN Some(schema_data(ctx))
                           ELSE value_get(data, field_name)
         IN  IF field_data = None
             THEN [acc EXCEPT !.errors = Append(@, QueryPosError(selection.position,
                       QErr("FieldDataNotFound", object_type.name, field_name)))]
             ELSE IF ft = None
             THEN [acc EXCEPT !.map = map_insert(@, field_name, field_data[1])]
             ELSE With(resolve(ctx, ft[1], field_data[1], selection.items, acc.st),
                       LAMBDA r :
                           IF r.ok
                           THEN [acc EXCEPT !.map = map_insert(@, field_name, r.v), !.st = r.st]
                           ELSE [acc EXCEPT !.err = Some(r.err), !.st = r.st])
    ELSE LET t == fragment_target(ctx, selection)
         IN  IF ~t.ok THEN [acc EXCEPT !.errors = Append(@, t.error)]
             ELSE With(resolve(ctx, t.object_type, data, t.items, acc.st),
                       LAMBDA r :
                           IF ~r.ok THEN [acc EXCEPT !.err = Some(r.err), !.st = r.st]
                           ELSE IF r.v.t = "obj"
                           THEN [acc EXCEPT !.map = map_extend(@, r.v.v, 1), !.st = r.st]
                           ELSE [acc EXCEPT !.st = r.st])

RECURSIVE resolve_loop(_, _, _, _, _, _)
resolve_loop(ctx, object_type, data, selections, i, acc) ==
    IF i > Len(selections) \/ acc.err # None THEN acc
    ELSE Eager(acc, resolve_loop(ctx, object_type, data, selections, i + 1,
                                 resolve_selection(ctx, object_type, data, selections[i], acc)))

RECURSIVE resolve_values(_, _, _, _, _, _)
\* query.rs 205-213: resolve mapped over the elements; the first Err ends it
resolve_values(ctx, object_type, values, selections, i, acc) ==
    IF i > Len(values) \/ ~acc.ok THEN acc
    ELSE Eager(acc, resolve_values(ctx, object_type, values, selections, i + 1,
             With(resolve(ctx, object_type, values[i], selections, acc.st),
                  LAMBDA r : IF r.ok THEN OkS(Append(acc.v, r.v), r.st) ELSE r)))

\* resolve without the early return on an empty array
resolve_fetch_first(ctx, object_type, data, selections, st) ==
    IF data.t = "null" \/ selections = <<>> THEN OkS(data, st)
    ELSE With(get_node_data(ctx, object_type, data, selections, st),
         LAMBDA n :
             IF ~n.ok THEN n
             ELSE IF n.v.t = "arr"
             THEN With(resolve_values(ctx, object_type, n.v.v, selections, 1,
                                      OkS(<<>>, n.st)),
                       LAMBDA values :
                           IF values.ok THEN OkS(JArr(values.v), values.st) ELSE values)
             ELSE With(resolve_loop(ctx, object_type, n.v, selections, 1,
                                    [map |-> <<>>, errors |-> <<>>, err |-> None,
                                     st |-> n.st]),
                       LAMBDA acc :
                           IF acc.err # None THEN ErrS(acc.err[1], acc.st)
                           ELSE IF acc.errors = <<>> THEN OkS(JObj(acc.map), acc.st)
                           ELSE ErrS(QErrors(acc.errors), acc.st)))

\* query.rs 186-347
resolve(ctx, object_type, data, selections, st) ==
    IF data.t = "null" \/ selections = <<>> THEN OkS(data, st)
    ELSE IF data.t = "arr" /\ data.v = <<>> THEN OkS(data, st)
    ELSE With(get_node_data(ctx, object_type, data, selections, st),
         LAMBDA n :
             IF ~n.ok THEN n
             ELSE IF n.v.t = "arr"
             THEN With(resolve_values(ctx, object_type, n.v.v, selections, 1,
                                      OkS(<<>>, n.st)),
                       LAMBDA values :
                           IF values.ok THEN OkS(JArr(values.v), values.st) ELSE values)
             ELSE With(resolve_loop(ctx, object_type, n.v, selections, 1,
                                    [map |-> <<>>, errors |-> <<>>, err |-> None,
                                     st |-> n.st]),
                       LAMBDA acc :
                           IF acc.err # None THEN ErrS(acc.err[1], acc.st)
                           ELSE IF acc.errors = <<>> THEN OkS(JObj(acc.map), acc.st)
                           ELSE ErrS(QErrors(acc.errors), acc.st)))

\* a client request: the parsed document and the variables
Request(operation, name, variable_definitions, selections, fragments, variables) ==
    [operation |-> operation, name |-> name, variable_definitions |-> variable_definitions,
     selections |-> selections, fragments |-> fragments, variables |-> variables]

\* query.rs 158-165: the Context of a request on gateway g, with the way the
\* upstream services answer during it
Context(g, request, mode) ==
    [schema |-> g.schema, executors |-> g.executors, mode |-> mode,
     operation_name |-> request.name, variables |-> request.variables,
     fragments |-> request.fragments,
     variable_definitions |-> request.variable_definitions]

NoCalls == [calls |-> <<>>, fetches |-> <<>>]

\* query.rs 112-183, from the parsed document on
execute_query(g, request, mode) ==
    LET ctx == Context(g, request, mode)
        object_type == object(g.schema, request.operation)
    IN  IF object_type = None
        THEN ErrS(QErr(IF request.operation = "Query" THEN "NotConfiguredQueries"
                       ELSE "NotConfiguredMutations", "", ""), NoCalls)
        ELSE With(get_root_data(ctx, object_type[1], request.selections, NoCalls),
                  LAMBDA data :
                      IF ~data.ok THEN data
                      ELSE resolve(ctx, object_type[1], data.v, request.selections, data.st))

(***************************************************************************)
(* The response as the client receives it (http.rs 28-85).  A position of  *)
(* the model is 100 * line + column of the selection in the client's       *)
(* document; the selections the gateway adds carry Pos::default().          *)
(***************************************************************************)
JNum(n) == [t |-> "num", v |-> n]

Pos(position) == [line |-> position \div 100, column |-> position % 100]

\* query.rs 26-58: Display of QueryError
to_string(err) ==
    CASE err.kind = "NotSupported" -> "Not supported."
      [] err.kind = "NotConfiguredQueries" -> "Schema is not configured for queries."
      [] err.kind = "NotConfiguredMutations" -> "Schema is not configured for mutations."
      [] err.kind = "FieldNotFound" ->
            "Cannot query field \"" \o err.b \o "\" on type \"" \o err.a \o "\"."
      [] err.kind = "FieldDataNotFound" ->
            "Cannot get field data \"" \o err.b \o "\" on type \"" \o err.a \o "\"."
      [] err.kind = "FieldIdNotFound" ->
            "Cannot query field \"id\" on type \"" \o err.a \o "\"."
      [] err.kind = "TypeNameNotExists" -> "\"__typename\" must be an existing string"
      [] err.kind = "MissingTypeConditionInlineFragment" ->
            "Missing type condition on inline fragment."
      [] err.kind = "UnknownFragment" -> "Unknown fragment \"" \o err.a \o "\"."
      [] err.kind = "UnknownExecutor" -> "Unknown executor \"" \o err.a \o "\"."
      [] err.kind = "InvalidExecutorResponse" -> "Invalid executor response"
      [] err.kind = "Errors" -> "Query errors."
      [] OTHER -> "Executor error"

\* http.rs 56-85: one entry per error of Errors, else a single entry at 0:0
GQLError(err) ==
    LET entry(message, pos) ==
            JObj(<< <<"message", JStr(message)>>,
                    <<"locations", JArr(<<JObj(<< <<"line", JNum(pos.line)>>,
                                                  <<"column", JNum(pos.column)>> >>)>>)>> >>)
    IN  IF err.kind = "Errors"
        THEN JArr([k \in DOMAIN err.errors |->
                      entry(to_string(err.errors[k].error), Pos(err.errors[k].position))])
        ELSE JArr(<<entry(to_string(err), Pos(0))>>)

\* http.rs 28-54: Serialize of GraphQLResponse(QueryResult<Value>)
GraphQLResponse(r) ==
    IF r.ok THEN JObj(<< <<"data", r.v>> >>)
    ELSE IF r.err.kind = "Executor"
    THEN IF r.err.value.t = "obj" THEN JObj(r.err.value.v) ELSE JObj(<<>>)
    ELSE JObj(<< <<"errors", GQLError(r.err)>> >>)

(***************************************************************************)
(* The client requests of the model, after tests/query.rs.  Each selection *)
(* carries its own position.                                               *)
(***************************************************************************)
Leaf(name, position) == Field(name, None, <<>>, <<>>, position)

Reviews(position) == Field("reviews", None, <<>>, <<Leaf("body", position + 1)>>, position)

Operation(selections) == Request("Query", "", <<>>, selections, <<>>, None)

\* { viewer { email reviews { body } } }
QueryViewer ==
    Operation(<<Field("viewer", None, <<>>, <<Leaf("email", 2), Reviews(3)>>, 1)>>)

\* { users { email reviews { body } } }
QueryUsers ==
    Operation(<<Field("users", None, <<>>, <<Leaf("email", 2), Reviews(3)>>, 1)>>)

\* { viewer { reviews { body } } }
QueryReviews ==
    Operation(<<Field("viewer", None, <<>>, <<Reviews(2)>>, 1)>>)

\* { viewer { ident: id mail: email reviews { body product { name } } } }
QueryAlias ==
    Operation(<<Field("viewer", None, <<>>,
                      <<Field("id", Some("ident"), <<>>, <<>>, 2),
                        Field("email", Some("mail"), <<>>, <<>>, 3),
                        Field("reviews", None, <<>>,
                              <<Leaf("body", 5),
                                Field("product", None, <<>>, <<Leaf("name", 7)>>, 6)>>, 4)>>,
                      1)>>)

\* { products { id name } }
QueryProducts ==
    Operation(<<Field("products", None, <<>>, <<Leaf("id", 2), Leaf("name", 3)>>, 1)>>)

\* { viewer { username ...UserParts } }
\* fragment UserParts on User { email reviews { body } }
QueryFragment ==
    [Operation(<<Field("viewer", None, <<>>,
                       <<Leaf("username", 2), FragmentSpread("UserParts", 3)>>, 1)>>)
        EXCEPT !.fragments =
            "UserParts" :> FragmentDefinition("UserParts", "User",
                                              <<Leaf("email", 5), Reviews(6)>>)]

\* query ($uid: ID!) { node(id: $uid) { ... on User { email reviews { body } } } }
QueryNode ==
    Request("Query", "", "uid" :> VariableDefinition("uid", "ID!"),
            <<Field("node", None, << <<"id", Variable("uid")>> >>,
                    <<InlineFragment(Some("User"), <<Leaf("email", 3), Reviews(4)>>, 2)>>,
                    1)>>,
            <<>>, Some(JObj(<< <<"uid", JStr("U0")>> >>)))

\* the same for a user review answers for and account has no record of
QueryGhost ==
    [QueryNode EXCEPT !.variables = Some(JObj(<< <<"uid", JStr("U10")>> >>))]

\* { users { username reviews { author { username } } } }
QueryAuthors ==
    Operation(<<Field("users", None, <<>>,
                      <<Leaf("username", 2),
                        Field("reviews", None, <<>>,
                              <<Field("author", None, <<>>, <<Leaf("username", 5)>>, 4)>>,
                              3)>>,
                      1)>>)

\* { viewer { reviews { product { name inStock } } } }
QueryStock ==
    Operation(<<Field("viewer", None, <<>>,
                      <<Field("reviews", None, <<>>,
                              <<Field("product", None, <<>>,
                                      <<Leaf("name", 4), Leaf("inStock", 5)>>, 3)>>,
                              2)>>,
                      1)>>)

\* tests/mutation.rs, with both executors that declare mutations:
\* mutation { signIn { id email } addProduct(id: "P0") { id name } }
MutationSignIn ==
    Request("Mutation", "", <<>>,
            <<Field("signIn", None, <<>>, <<Leaf("id", 2), Leaf("email", 3)>>, 1),
              Field("addProduct", None, << <<"id", Literal(JStr("P0"))>> >>,
                    <<Leaf("id", 5), Leaf("name", 6)>>, 4)>>,
            <<>>, None)

\* mutation { addProduct(id: "P0") { name inStock } signIn { email }
\*            again: signIn { username } }
MutationAddProduct ==
    Request("Mutation", "", <<>>,
            <<Field("addProduct", None, << <<"id", Literal(JStr("P0"))>> >>,
                    <<Leaf("name", 2), Leaf("inStock", 3)>>, 1),
              Field("signIn", None, <<>>, <<Leaf("email", 5)>>, 4),
              Field("signIn", Some("again"), <<>>, <<Leaf("username", 7)>>, 6)>>,
            <<>>, None)

\* tests/error.rs 47-85: { products { id name in_stock } }, in_stock at line 6
\* column 25
QueryFieldNotFound ==
    Operation(<<Field("products", None, <<>>,
                      <<Leaf("id", 425), Leaf("name", 525), Leaf("in_stock", 625)>>,
                      321)>>)

\* tests/error.rs 87-124: { products { id ...ProductDetail } }, the spread at
\* line 5 column 28
QueryUnknownFragment ==
    Operation(<<Field("products", None, <<>>,
                      <<Leaf("id", 425), FragmentSpread("ProductDetail", 528)>>, 321)>>)

\* { viewer { email } products { in_stock } }
QueryLate ==
    Operation(<<Field("viewer", None, <<>>, <<Leaf("email", 225)>>, 221),
                Field("products", None, <<>>, <<Leaf("in_stock", 325)>>, 321)>>)

\* { viewer { nickname ...UserParts } }
\* fragment UserParts on User { email surname }
QuerySeveral ==
    [Operation(<<Field("viewer", None, <<>>,
                       <<Leaf("nickname", 225), FragmentSpread("UserParts", 325)>>, 121)>>)
        EXCEPT !.fragments =
            "UserParts" :> FragmentDefinition("UserParts", "User",
                                              <<Leaf("email", 525), Leaf("surname", 625)>>)]

\* tests/query.rs 516-617:
\* query ($userId: ID!, $reviewId: ID!) {
\*   user: node(id: $userId) { ... on User { email reviews { body } } }
\*   review: node(id: $reviewId) { ... on Review { body } } }
QueryVariables ==
    Request("Query", "",
            ("userId" :> VariableDefinition("userId", "ID!"))
                @@ ("reviewId" :> VariableDefinition("reviewId", "ID!")),
            <<Field("node", Some("user"), << <<"id", Variable("userId")>> >>,
                    <<InlineFragment(Some("User"), <<Leaf("email", 3), Reviews(4)>>, 2)>>,
                    1),
              Field("node", Some("review"), << <<"id", Variable("reviewId")>> >>,
                    <<InlineFragment(Some("Review"), <<Leaf("body", 8)>>, 7)>>, 6)>>,
            <<>>,
            Some(JObj(<< <<"userId", JStr("U0")>>, <<"reviewId", JStr("R0")>> >>)))

\* tests/introspection.rs: { __schema { types { name } } }
QuerySchema ==
    Operation(<<Field("__schema", None, <<>>,
                      <<Field("types", None, <<>>, <<Leaf("name", 3)>>, 2)>>, 1)>>)

\* { __schema { types { name } } viewer { email } }
QuerySchemaViewer ==
    Operation(<<Field("__schema", None, <<>>,
                      <<Field("types", None, <<>>, <<Leaf("name", 3)>>, 2)>>, 1),
                Field("viewer", None, <<>>, <<Leaf("email", 5)>>, 4)>>)

\* { ...RootParts }   fragment RootParts on Query { viewer { email } }
QueryRootFragment ==
    [Operation(<<FragmentSpread("RootParts", 1)>>)
        EXCEPT !.fragments =
            "RootParts" :> FragmentDefinition("RootParts", "Query",
                               <<Field("viewer", None, <<>>, <<Leaf("email", 4)>>, 3)>>)]

\* { viewer { email reviews { body } } } with the client's variables
\* {"__gql_gateway_ids": ["U1"]}
QueryOwnIds ==
    [QueryViewer EXCEPT
        !.variables = Some(JObj(<< <<"__gql_gateway_ids", JArr(<<JStr("U1")>>)>> >>))]

\* { ...RootParts }
\* fragment RootParts on Query { viewer { email } ...RootMore }
\* fragment RootMore on Query { ...RootParts }
QueryCycle ==
    [Operation(<<FragmentSpread("RootParts", 1)>>)
        EXCEPT !.fragments =
            ("RootParts" :> FragmentDefinition("RootParts", "Query",
                                <<Field("viewer", None, <<>>, <<Leaf("email", 4)>>, 3),
                                  FragmentSpread("RootMore", 5)>>))
            @@ ("RootMore" :> FragmentDefinition("RootMore", "Query",
                                <<FragmentSpread("RootParts", 7)>>))]

Queries ==
    {"viewer", "users", "reviews", "alias", "products", "fragment", "node", "ghost",
     "authors", "stock", "signIn", "addProduct", "fieldNotFound", "unknownFragment",
     "late", "several", "variables", "schema", "schemaViewer", "rootFragment",
     "ownIds"}

RequestOf(q) ==
    CASE q = "viewer" -> QueryViewer
      [] q = "users" -> QueryUsers
      [] q = "reviews" -> QueryReviews
      [] q = "alias" -> QueryAlias
      [] q = "products" -> QueryProducts
      [] q = "fragment" -> QueryFragment
      [] q = "node" -> QueryNode
      [] q = "ghost" -> QueryGhost
      [] q = "authors" -> QueryAuthors
      [] q = "stock" -> QueryStock
      [] q = "signIn" -> MutationSignIn
      [] q = "addProduct" -> MutationAddProduct
      [] q = "fieldNotFound" -> QueryFieldNotFound
      [] q = "unknownFragment" -> QueryUnknownFragment
      [] q = "late" -> QueryLate
      [] q = "several" -> QuerySeveral
      [] q = "variables" -> QueryVariables
      [] q = "schema" -> QuerySchema
      [] q = "schemaViewer" -> QuerySchemaViewer
      [] q = "rootFragment" -> QueryRootFragment
      [] q = "ownIds" -> QueryOwnIds
      [] q = "cycle" -> QueryCycle

\* tests/common.rs gateway(): the executors of the federation, registered
Federation ==
    executor(executor(executor(executor(DefaultGateway, "account", "Acc"),
                               "inventory", "Inv"),
                      "product", "Prod"),
             "review", "Rev")

NoRequest ==
    [q |-> "", mode |-> "", ok |-> TRUE, v |-> JNull, err |-> NoError,
     calls |-> <<>>, fetches |-> <<>>]

Init ==
    /\ executors = DefaultGateway.executors
    /\ introspections = DefaultGateway.introspections
    /\ schema = DefaultGateway.schema
    /\ document = DefaultGateway.document
    /\ last = [op |-> "new", name |-> "", arg |-> "", inputs |-> <<>>, order |-> <<>>,
               res |-> NoResult]
    /\ req = NoRequest

SetGateway(g) ==
    /\ executors' = g.executors
    /\ introspections' = g.introspections
    /\ schema' = g.schema
    /\ document' = g.document

Executor(name, v) ==
    /\ SetGateway(executor(Gw, name, v))
    /\ last' = [op |-> "executor", name |-> name, arg |-> v, inputs |-> <<>>,
                order |-> <<>>, res |-> NoResult]
    /\ UNCHANGED req

Build ==
    \E order \in Perms(DOMAIN introspect_all(Gw)) :
        LET out == build(Gw, order)
        IN  /\ SetGateway(out.g)
            /\ last' = [op |-> "build", name |-> "", arg |-> "", inputs |-> out.inputs,
                        order |-> order, res |-> out.res]
            /\ UNCHANGED req

Pull(name) ==
    \E order \in Perms(DOMAIN introspections \cup {name}) :
        LET out == pull(Gw, name, order)
        IN  /\ SetGateway(out.g)
            /\ last' = [op |-> "pull", name |-> name, arg |-> "", inputs |-> out.inputs,
                        order |-> IF out.inputs = <<>> THEN <<>> ELSE order,
                        res |-> out.res]
            /\ UNCHANGED req

Validate(name, v) ==
    \E order \in Perms(DOMAIN introspections \cup {name}) :
        LET out == validate(Gw, name, v, order)
        IN  /\ SetGateway(out.g)
            /\ last' = [op |-> "validate", name |-> name, arg |-> v, inputs |-> out.inputs,
                        order |-> order, res |-> out.res]
            /\ UNCHANGED req

Next ==
    \/ \E name \in ExecutorNames : \E v \in VersionsOf(name) : Executor(name, v)
    \/ Build
    \/ \E name \in ExecutorNames : Pull(name)
    \/ \E name \in ExecutorNames : \E v \in SchemaVersions(name) : Validate(name, v)

Spec == Init /\ [][Next]_vars

(***************************************************************************)
(* Requests against a built federation: the gateway of tests/common.rs is  *)
(* built, then serves one request.                                         *)
(***************************************************************************)
InitQuery ==
    \E order \in Perms(DOMAIN Federation.executors) :
        LET out == build(Federation, order)
        IN  /\ executors = out.g.executors
            /\ introspections = out.g.introspections
            /\ schema = out.g.schema
            /\ document = out.g.document
            /\ last = [op |-> "build", name |-> "", arg |-> "", inputs |-> out.inputs,
                       order |-> order, res |-> out.res]
            /\ req = NoRequest

\* the request made, its result and the record of what it sent upstream
Response(q, mode, r) ==
    [q |-> q, mode |-> mode, ok |-> r.ok, v |-> r.v, err |-> r.err,
     calls |-> r.st.calls, fetches |-> r.st.fetches]

Execute(q, mode) ==
    /\ req = NoRequest
    /\ req' = Response(q, mode, execute_query(Gw, RequestOf(q), mode))
    /\ UNCHANGED gwvars

NextQuery == \E q \in Queries, mode \in Modes : Execute(q, mode)

SpecQuery == InitQuery /\ [][NextQuery]_vars

(***************************************************************************)
(* The root dispatch of a request step by step (query.rs 112-183 and       *)
(* 349-428): req follows QueryBuilder::execute through get_root_data, one  *)
(* step per planner pass, upstream call and upstream answer.  events holds *)
(* the start and the end of every Executor::execute in the order they      *)
(* happen; stage tells where the request ended.                            *)
(***************************************************************************)
Dispatching(q, mode) ==
    [q |-> q, mode |-> mode, phase |-> "loop", missing |-> <<>>, i |-> 1, map |-> <<>>,
     st |-> NoCalls, running |-> <<>>, events |-> <<>>, stage |-> "",
     ok |-> TRUE, v |-> JNull, err |-> NoError]

\* a `?` or an Err leaving QueryBuilder::execute
Failed(d, stage, err) ==
    [d EXCEPT !.phase = "done", !.stage = stage, !.ok = FALSE, !.err = err]

DispatchContext == Context(Gw, RequestOf(req.q), req.mode)

RootType(q) == object(schema, RequestOf(q).operation)

\* query.rs 112-172 and 355: the Context, the root type, resolve_executors
Begin(q, mode) ==
    /\ req = NoRequest
    /\ req' = IF RootType(q) = None
              THEN Failed(Dispatching(q, mode), "execute",
                          QErr(IF RequestOf(q).operation = "Query"
                               THEN "NotConfiguredQueries"
                               ELSE "NotConfiguredMutations", "", ""))
              ELSE With(resolve_executors(Context(Gw, RequestOf(q), mode), RootType(q)[1],
                                          None, RequestOf(q).selections),
                        LAMBDA missing :
                            IF ~missing.ok
                            THEN Failed(Dispatching(q, mode), "plan", missing.err)
                            ELSE [Dispatching(q, mode) EXCEPT !.missing = missing.v])
    /\ UNCHANGED gwvars

\* query.rs 357-359 and 367-418: one turn of `for executor in executors` up
\* to the call of Executor::execute
Run(e) ==
    /\ req # NoRequest
    /\ req.phase = "loop"
    /\ req.i <= Len(req.missing)
    /\ e = req.missing[req.i]
    /\ req' = With(resolve_executor(DispatchContext, RootType(req.q)[1],
                                    RequestOf(req.q).selections, e),
                   LAMBDA result :
                       IF ~result.ok THEN Failed(req, "plan", result.err)
                       ELSE IF e \notin DOMAIN executors
                       THEN Failed(req, "executor", QErr("UnknownExecutor", e, ""))
                       ELSE [req EXCEPT
                               !.phase = "running",
                               !.events = Append(@, <<"start", e>>),
                               !.running = <<Call(e, RootType(req.q)[1].name,
                                                  DispatchContext.operation_name,
                                                  result.v, result.v.selections,
                                                  Range(result.v.variable_definitions),
                                                  IF DispatchContext.variables = None
                                                  THEN JNull
                                                  ELSE DispatchContext.variables[1])>>])
    /\ UNCHANGED gwvars

\* query.rs 418-427 and 359-361: the `.await` returns, the response is
\* checked and merged, and the loop moves on
Complete(e) ==
    /\ req # NoRequest
    /\ req.phase = "running"
    /\ e = req.missing[req.i]
    /\ req' = With(send(DispatchContext, req.running[1]),
                   LAMBDA call :
                       With(check_executor_response(call.response),
                            LAMBDA r :
                                IF ~r.ok
                                THEN Failed([req EXCEPT
                                               !.st.calls = Append(@, call),
                                               !.running = <<>>,
                                               !.events = Append(@, <<"end", e>>)],
                                            "executor", r.err)
                                ELSE [req EXCEPT
                                        !.phase = "loop",
                                        !.i = @ + 1,
                                        !.map = merge_object(@, r.v, 1),
                                        !.st.calls = Append(@, call),
                                        !.running = <<>>,
                                        !.events = Append(@, <<"end", e>>)]))
    /\ UNCHANGED gwvars

\* query.rs 364 and 174-182: the loop is over, resolve completes the data
Finish ==
    /\ req # NoRequest
    /\ req.phase = "loop"
    /\ req.i > Len(req.missing)
    /\ req' = With(resolve(DispatchContext, RootType(req.q)[1], JObj(req.map),
                           RequestOf(req.q).selections, req.st),
                   LAMBDA r : [req EXCEPT !.phase = "done", !.stage = "resolve",
                                          !.ok = r.ok, !.v = r.v, !.err = r.err,
                                          !.st = r.st])
    /\ UNCHANGED gwvars

NextDispatch ==
    \/ \E q \in Queries, mode \in Modes : Begin(q, mode)
    \/ \E e \in DOMAIN executors : Run(e)
    \/ \E e \in DOMAIN executors : Complete(e)
    \/ Finish

SpecDispatch == InitQuery /\ [][NextDispatch]_vars

(***************************************************************************)
(* resolve (query.rs 186-347) applied on its own to a parent type, a       *)
(* selection set and the data at hand.                                     *)
(***************************************************************************)
ResolveTypes == {"User", "Product", "Query"}

\* { email reviews { body } } and { ... on User { email } reviews { body } }
UserSelections ==
    {<<Leaf("email", 2), Reviews(3)>>,
     <<InlineFragment(Some("User"), <<Leaf("email", 3)>>, 2), Reviews(4)>>}

ResolveSelections ==
    {<<>>, <<Leaf("name", 2), Leaf("inStock", 3)>>} \cup UserSelections

\* the data at hand, by number: nothing (1, 2), a scalar (3), an object
\* without fields (4), a user (5), two users (6), a product (7), a user with
\* reviews (8), two users of whom the first has reviews (9)
ResolveData ==
    <<JNull, JArr(<<>>), JStr("john@doe.com"), JObj(<<>>),
      JObj(<< <<"id", JStr("U0")>>, <<"email", JStr("john@doe.com")>> >>),
      JArr(<<JObj(<< <<"id", JStr("U0")>> >>), JObj(<< <<"id", JStr("U1")>> >>)>>),
      JObj(<< <<"id", JStr("P0")>>, <<"name", JStr("Product 1")>> >>),
      JObj(<< <<"email", JStr("john@doe.com")>>,
              <<"reviews", JArr(<<JObj(<< <<"body", JStr("Good")>> >>)>>)>> >>),
      JArr(<<JObj(<< <<"id", JStr("U0")>>, <<"email", JStr("john@doe.com")>>,
                     <<"reviews", JArr(<<>>)>> >>),
             JObj(<< <<"id", JStr("U1")>>, <<"email", JStr("jane@doe.com")>> >>)>>)>>

\* the early returns of resolve (query.rs 193-201)
Trivial(selections, data) ==
    selections = <<>> \/ data.t = "null" \/ (data.t = "arr" /\ data.v = <<>>)

\* data number d is of the parent type and can carry the selections
Fitting(type_name, selections, d) ==
    /\ selections # <<>>
    /\ \/ type_name = "User" /\ selections \in UserSelections /\ d \in {5, 6, 8, 9}
       \/ type_name = "Product" /\ selections[1].name = "name" /\ d = 7

Resolved(type_name, selections, data, mode, r) ==
    [q |-> "", mode |-> mode, type |-> type_name, selections |-> selections,
     data |-> data, ok |-> r.ok, v |-> r.v, err |-> r.err,
     calls |-> r.st.calls, fetches |-> r.st.fetches]

Resolve(type_name, selections, d, mode) ==
    /\ req = NoRequest
    /\ Trivial(selections, ResolveData[d]) \/ Fitting(type_name, selections, d)
    /\ req' = Resolved(type_name, selections, ResolveData[d], mode,
                       resolve(Context(Gw, Operation(<<>>), mode),
                               object(schema, type_name)[1], ResolveData[d], selections,
                               NoCalls))
    /\ UNCHANGED gwvars

NextResolve ==
    \E type_name \in ResolveTypes, selections \in ResolveSelections,
       d \in DOMAIN ResolveData, mode \in Modes :
        Resolve(type_name, selections, d, mode)

SpecResolve == InitQuery /\ [][NextResolve]_vars

(***************************************************************************)
(* merge_object (query.rs 970-981) applied on its own to the map merged so *)
(* far and the data of the next executor.  The answers are those of        *)
(* executors to the parts of                                               *)
(*   { node(id: "U0") { ... on User { email reviews { body } } } }         *)
(*   { node(id: "P0") { ... on Product { similar { ... on Product          *)
(*                                          { name inStock } } } } }       *)
(*   { nodes(ids: ["U0", "U1"]) { ... on User { email reviews { body } } } *)
(* sent to them; similar is a field typed Node, which gateway.rs 163-171   *)
(* lets several executors declare.                                         *)
(***************************************************************************)
MergeData ==
    << <<>>,
       << <<"node", JObj(<< <<"id", JStr("U0")>>, <<"email", JStr("john@doe.com")>> >>)>> >>,
       << <<"node", JObj(<< <<"id", JStr("U0")>>,
                            <<"reviews", JArr(<<JObj(<< <<"body", JStr("Good")>> >>)>>)>> >>)>> >>,
       << <<"node", JNull>> >>,
       << <<"node", JObj(<< <<"id", JStr("P0")>>,
                            <<"similar", JObj(<< <<"id", JStr("P1")>>,
                                                 <<"name", JStr("Product 2")>> >>)>> >>)>> >>,
       << <<"node", JObj(<< <<"id", JStr("P0")>>,
                            <<"similar", JObj(<< <<"id", JStr("P1")>>,
                                                 <<"inStock", JBool(TRUE)>> >>)>> >>)>> >>,
       << <<"nodes", JArr(<<JObj(<< <<"id", JStr("U0")>>, <<"email", JStr("john@doe.com")>> >>),
                            JObj(<< <<"id", JStr("U1")>>, <<"email", JStr("jane@doe.com")>> >>)>>)>> >>,
       << <<"nodes", JArr(<<JObj(<< <<"id", JStr("U0")>>, <<"reviews", JArr(<<>>)>> >>),
                            JObj(<< <<"id", JStr("U1")>>, <<"reviews", JArr(<<>>)>> >>)>>)>> >>,
       << <<"viewer", JObj(<< <<"id", JStr("U0")>>, <<"email", JStr("john@doe.com")>> >>)>>,
          <<"products", JArr(<<>>)>> >> >>

\* a merge made: the map so far, the data merged into it and the map after
MergedObject(a, b, out) ==
    [q |-> "", mode |-> "", a |-> a, b |-> b, out |-> out, ok |-> TRUE, v |-> JNull,
     err |-> NoError, calls |-> <<>>, fetches |-> <<>>]

MergeObject(i, j) ==
    /\ req = NoRequest
    /\ req' = MergedObject(MergeData[i], MergeData[j],
                           merge_object(MergeData[i], MergeData[j], 1))
    /\ UNCHANGED gwvars

NextMerge == \E i, j \in DOMAIN MergeData : MergeObject(i, j)

SpecMerge == InitQuery /\ [][NextMerge]_vars

(***************************************************************************)
(* resolve_executors (query.rs 620-762) step by step, as get_root_data     *)
(* calls it on the root selections: one frame per call in progress, the    *)
(* calls made for a field of interface type (query.rs 651-664), a spread   *)
(* (699-711) or an inline fragment (737-752) on top of their caller.  The  *)
(* thread's stack holds StackLimit frames.                                 *)
(***************************************************************************)
StackLimit == 8

PlanQueries ==
    {"viewer", "fragment", "node", "several", "unknownFragment", "rootFragment",
     "schemaViewer", "variables", "cycle"}

\* a call of resolve_executors: its arguments and its locals, i the place of
\* `for selection in selections`
PlanFrame(object_type, items) ==
    [object_type |-> object_type, items |-> items, i |-> 1, executors |-> <<>>,
     errors |-> <<>>]

Planning(q) ==
    [q |-> q, mode |-> "toy", phase |-> "plan",
     stack |-> <<PlanFrame(RootType(q)[1], RequestOf(q).selections)>>,
     ok |-> TRUE, v |-> <<>>, err |-> NoError, calls |-> <<>>, fetches |-> <<>>]

PlanContext == Context(Gw, RequestOf(req.q), req.mode)

\* the call in progress and the selection its loop is at
PlanTop == req.stack[Len(req.stack)]

PlanSelection == PlanTop.items[PlanTop.i]

InLoop == req # NoRequest /\ req.phase = "plan" /\ PlanTop.i <= Len(PlanTop.items)

\* the selection makes resolve_executors call itself: on which type and
\* selections, if it does
PlanCallee(ctx, object_type, selection) ==
    IF selection.k = "Field"
    THEN IF starts_with_underscores(selection.name)
            \/ field_object_type(ctx.schema, object_type, selection.name) = None
            \/ ~is_interface(field_object_type(ctx.schema, object_type, selection.name)[1][2])
         THEN None
         ELSE Some(PlanFrame(field_object_type(ctx.schema, object_type,
                                               selection.name)[1][2],
                             selection.items))
    ELSE IF fragment_target(ctx, selection).ok
    THEN Some(PlanFrame(fragment_target(ctx, selection).object_type,
                        fragment_target(ctx, selection).items))
    ELSE None

StartPlan(q) ==
    /\ req = NoRequest
    /\ RootType(q) # None
    /\ req' = Planning(q)
    /\ UNCHANGED gwvars

\* a turn of the loop that returns to the loop without a call
VisitSelection ==
    /\ InLoop
    /\ PlanCallee(PlanContext, PlanTop.object_type, PlanSelection) = None
    /\ req' = With(resolve_executors_selection(PlanContext, PlanTop.object_type, None,
                       PlanSelection,
                       [executors |-> PlanTop.executors, errors |-> PlanTop.errors,
                        err |-> None]),
                   LAMBDA acc :
                       [req EXCEPT !.stack[Len(req.stack)] =
                           [@ EXCEPT !.i = @ + 1, !.executors = acc.executors,
                                     !.errors = acc.errors]])
    /\ UNCHANGED gwvars

\* a turn of the loop that calls resolve_executors: a new frame, or no room
\* for it on the stack
CallPlan ==
    /\ InLoop
    /\ PlanCallee(PlanContext, PlanTop.object_type, PlanSelection) # None
    /\ req' = IF Len(req.stack) >= StackLimit
              THEN [req EXCEPT !.phase = "overflow", !.ok = FALSE]
              ELSE [req EXCEPT !.stack = Append(@,
                        PlanCallee(PlanContext, PlanTop.object_type, PlanSelection)[1])]
    /\ UNCHANGED gwvars

\* the loop of the call in progress is over: Err(Errors) goes up through the
\* `?` of every caller, Ok(executors) goes to the caller, which pushes those
\* it has not got yet
ReturnPlan ==
    /\ req # NoRequest
    /\ req.phase = "plan"
    /\ PlanTop.i > Len(PlanTop.items)
    /\ req' = IF PlanTop.errors # <<>>
              THEN [req EXCEPT !.phase = "done", !.ok = FALSE,
                               !.err = QErrors(PlanTop.errors)]
              ELSE IF Len(req.stack) = 1
              THEN [req EXCEPT !.phase = "done", !.v = PlanTop.executors]
              ELSE [req EXCEPT !.stack =
                        [SubSeq(@, 1, Len(@) - 1) EXCEPT ![Len(req.stack) - 1] =
                            [@ EXCEPT !.i = @ + 1,
                                      !.executors = push_new(@, PlanTop.executors)]]]
    /\ UNCHANGED gwvars

NextPlan ==
    \/ \E q \in PlanQueries : StartPlan(q)
    \/ VisitSelection
    \/ CallPlan
    \/ ReturnPlan

\* the request runs on: a thread that can take a step takes it
SpecPlan == InitQuery /\ [][NextPlan]_vars /\ WF_vars(NextPlan)

(***************************************************************************)
(* Vocabulary of the properties: the declarations of a set of inputs.      *)
(***************************************************************************)
\* the fields executor e declares under key <<kind, type, name>>
Declared(inputs, e, key) ==
    {f \in UNION {IF t.fields = None THEN {} ELSE Range(t.fields[1]) :
                  t \in {u \in Range(SchemaOf(inputs[e]).types) :
                         u.kind = key[1] /\ u.name = key[2]}} :
        f.name = key[3]}

FieldKeys(inputs) ==
    UNION {UNION {IF t.fields = None THEN {}
                  ELSE {<<t.kind, t.name, f.name>> : f \in Range(t.fields[1])} :
                  t \in Range(SchemaOf(inputs[e]).types)} : e \in DOMAIN inputs}

Declarers(inputs, key) == {e \in DOMAIN inputs : Declared(inputs, e, key) # {}}

\* no whitelist condition of the merger holds for declaration f of key
Unlisted(key, f) ==
    /\ field_type(f).name # "ID"
    /\ key[1] = "Object"
    /\ field_type(f).kind # "Interface"
    /\ ~starts_with_underscores(key[2])

\* the keys two different executors declare with no whitelist condition
Conflicting(inputs) ==
    {key \in FieldKeys(inputs) :
        \E e1, e2 \in Declarers(inputs, key) :
            /\ e1 # e2
            /\ \E f \in Declared(inputs, e1, key) : Unlisted(key, f)
            /\ \E f \in Declared(inputs, e2, key) : Unlisted(key, f)}

Merged == last.op \in {"build", "pull", "validate"} /\ last.inputs # <<>>

\* the executor visited first among those declaring key
FirstDeclarer(inputs, order, key) ==
    order[CHOOSE i \in DOMAIN order :
              /\ order[i] \in Declarers(inputs, key)
              /\ \A j \in 1..(i - 1) : order[j] \notin Declarers(inputs, key)]

(***************************************************************************)
(* C1. Duplicate-field gate: whenever the inputs of a merge (by build,     *)
(* pull or validate) hold a field of an Object type that two different     *)
(* executors declare with no whitelist condition, the merge fails with     *)
(* DuplicateObjectFields, whatever the visiting order, and the error lists *)
(* every such Kind.Type.Field key.                                         *)
(***************************************************************************)
C1_DuplicateFieldGate ==
    (Merged /\ Conflicting(last.inputs) # {}) =>
        /\ ~last.res.ok
        /\ last.res.err = "DuplicateObjectFields"
        /\ \A key \in Conflicting(last.inputs) :
               \E i \in DOMAIN last.res.fields : last.res.fields[i][3] = key

C1_Witness ==
    /\ last.op = "validate"
    /\ <<"Object", "User", "email">> \in Conflicting(last.inputs)
    /\ last.res.err = "DuplicateObjectFields"

(***************************************************************************)
(* C2. In the merged schema every field name occurs at most once in its    *)
(* type's field list, every listed field has one index entry, and after a  *)
(* successful build or pull the owner recorded for a field is the executor *)
(* visited first among those declaring it.                                 *)
(***************************************************************************)
C2_OneOwnerPerField ==
    /\ \A ti \in DOMAIN schema.types :
           LET t == schema.types[ti]
           IN  t.fields # None =>
                   \A i, j \in DOMAIN t.fields[1] :
                       /\ (t.fields[1][i].name = t.fields[1][j].name => i = j)
                       /\ <<t.kind, t.name, t.fields[1][i].name>>
                              \in DOMAIN schema.type_fields_by_name
    /\ (last.op \in {"build", "pull"} /\ last.inputs # <<>> /\ last.res.ok) =>
           /\ DOMAIN schema.type_fields_by_name = FieldKeys(last.inputs)
           /\ \A key \in FieldKeys(last.inputs) :
                  schema.type_fields_by_name[key][1]
                      = FirstDeclarer(last.inputs, last.order, key)

C2_Witness ==
    /\ last.op = "build"
    /\ last.res.ok
    /\ Cardinality(Declarers(last.inputs, <<"Object", "Query", "node">>)) > 1
    /\ Cardinality(Declarers(last.inputs, <<"Object", "User", "id">>)) > 1
    /\ <<"Object", "Query", "node">> \in DOMAIN schema.type_fields_by_name

(***************************************************************************)
(* C3. A validate step leaves executors, cached introspections, merged     *)
(* schema and document as they were, whether it returns Ok or the error.   *)
(***************************************************************************)
C3_ValidateFrame ==
    [][last'.op = "validate" =>
           UNCHANGED <<executors, introspections, schema, document>>]_vars

C3_Witness ==
    /\ last.op = "validate"
    /\ last.res.ok
    /\ schema # DefaultSchema
    /\ last.name \in DOMAIN introspections
    /\ introspections[last.name] # last.arg

(***************************************************************************)
(* C4. pull swaps atomically: a failing pull (unknown executor, failed     *)
(* introspection, duplicate fields) leaves schema, document and cached     *)
(* introspections as they were, and in every state the three agree: the    *)
(* schema is a merge of the cached introspections and the document is the  *)
(* document of that schema.                                                *)
(***************************************************************************)
Agree ==
    /\ document = create_document(schema)
    /\ \E order \in Perms(DOMAIN introspections) :
           LET r == create_schema(introspections, order)
           IN  r.ok /\ r.schema = schema

C4_PullAtomic ==
    /\ []Agree
    /\ [][(last'.op = "pull" /\ ~last'.res.ok) =>
              UNCHANGED <<schema, document, introspections>>]_vars

C4_Witness ==
    /\ last.op = "pull"
    /\ last.res.err = "DuplicateObjectFields"
    /\ schema # DefaultSchema

(***************************************************************************)
(* C5. A successful pull(name) leaves the cache equal to the previous one  *)
(* with name's entry replaced by the fresh introspection, and the schema   *)
(* and document equal to the merge of that cache.  In every state a field  *)
(* is resolvable (the planner's lookup finds it; otherwise FieldNotFound)  *)
(* exactly if a cached introspection declares it: fields only the replaced *)
(* introspection declared are gone, those of the new one are there, and,   *)
(* resolvability being a function of the cache, pulling the original back  *)
(* restores the original set.                                              *)
(***************************************************************************)
AllVersions == [v \in {"Acc", "Rev", "RevUpdated"} |-> v]

Resolvable(s, key) ==
    field_object_type(s, [kind |-> key[1], name |-> key[2]], key[3]) # None

ResolvableIffDeclared ==
    \A key \in FieldKeys(AllVersions) :
        Resolvable(schema, key) <=> key \in FieldKeys(introspections)

C5_PullReplaces ==
    /\ []ResolvableIffDeclared
    /\ [][(last'.op = "pull" /\ last'.res.ok) =>
              /\ introspections' = insert(introspections, last'.name, executors[last'.name])
              /\ schema' = create_schema(introspections', last'.order).schema
              /\ document' = create_document(schema')]_vars

C5_Witness ==
    /\ last.op = "pull"
    /\ last.res.ok
    /\ last.name = "review"
    /\ introspections["review"] = "RevUpdated"
    /\ "account" \in DOMAIN introspections
    /\ ~Resolvable(schema, <<"Object", "Review", "body">>)
    /\ Resolvable(schema, <<"Object", "Review", "text">>)

(***************************************************************************)
(* C6. Merging is deterministic: a merge that succeeded succeeds for every *)
(* visiting order of the same inputs, with the same typeIndex keys, the    *)
(* same fieldIndex keys and the same owner for every field.                *)
(***************************************************************************)
C6_MergeDeterministic ==
    (Merged /\ last.res.ok) =>
        \A order \in Perms(DOMAIN last.inputs) :
            LET a == create_schema(last.inputs, last.order)
                b == create_schema(last.inputs, order)
            IN  /\ b.ok
                /\ DOMAIN b.schema.types_by_name = DOMAIN a.schema.types_by_name
                /\ DOMAIN b.schema.type_fields_by_name = DOMAIN a.schema.type_fields_by_name
                /\ \A key \in DOMAIN a.schema.type_fields_by_name :
                       b.schema.type_fields_by_name[key][1]
                           = a.schema.type_fields_by_name[key][1]

(***************************************************************************)
(* Vocabulary of the claims about requests.                                *)
(***************************************************************************)
ClientFragments == RequestOf(req.q).fragments

\* the Field selections of a selection set, fragment spreads and inline
\* fragments flattened in place
RECURSIVE FlatFields(_)
FlatFields(items) ==
    IF items = <<>> THEN <<>>
    ELSE LET x == items[1]
             head == IF x.k = "Field" THEN <<x>>
                     ELSE IF x.k = "InlineFragment" THEN FlatFields(x.items)
                     ELSE IF x.name \in DOMAIN ClientFragments
                     THEN FlatFields(ClientFragments[x.name].items)
                     ELSE <<>>
         IN  head \o FlatFields(Tail(items))

\* the response names of a selection set in document order, each once
RECURSIVE Distinct(_)
Distinct(s) ==
    IF s = <<>> THEN <<>>
    ELSE LET init == Distinct(SubSeq(s, 1, Len(s) - 1))
         IN  IF s[Len(s)] \in Range(init) THEN init ELSE Append(init, s[Len(s)])

ResponseNames(items) ==
    Distinct([i \in DOMAIN FlatFields(items) |-> response_name(FlatFields(items)[i])])

\* the key under which the objects of a selection set carry their id
IdKey(items) ==
    LET ids == SelectSeq(items, LAMBDA x : x.k = "Field" /\ x.name = "id")
    IN  IF ids = <<>> THEN "id" ELSE response_name(ids[1])

Keys(value) == Range(map_keys(value.v))

\* the executors owning a selected field that the object does not carry
MissingExecutors(f) ==
    {schema.type_fields_by_name[<<"Object", f.type, x.name>>][1] :
        x \in {y \in Range(FlatFields(f.selections)) :
                   value_get(f.data, response_name(y)) = None}}

\* the ids a call carries
IdsOf(call) == value_get(call.variables, "__gql_gateway_ids")

\* the node a NodeQuery call was answered with for one object
NodeOf(call) == value_get(value_get(call.response, "data")[1], "nodes")[1].v[1]

\* nodes(ids: $__gql_gateway_ids) { ... on T { ... } } as operation NodeQuery
IsNodeQuery(call, type_name) ==
    /\ call.operation = "Query"
    /\ call.name = "NodeQuery"
    /\ Len(call.selections) = 1
    /\ call.selections[1].k = "Field"
    /\ call.selections[1].name = "nodes"
    /\ call.selections[1].arguments = << <<"ids", Variable("__gql_gateway_ids")>> >>
    /\ Len(call.selections[1].items) = 1
    /\ call.selections[1].items[1].k = "InlineFragment"
    /\ call.selections[1].items[1].type_condition = Some(type_name)

\* C7: when resolve meets a single object of a Node-implementing type that
\* carries id X and lacks selected fields owned by other executors, each of
\* those executors, and no other, receives exactly one NodeQuery
\* nodes(ids: [X]) { ... on T {...} }, and the object the node-fetch step
\* returns keeps every field already present and carries every field the
\* missing executors contributed.
C7_NodeFetchSingle ==
    \A n \in DOMAIN req.fetches :
        LET f == req.fetches[n]
            X == value_get(f.data, IdKey(f.selections))
        IN  f.data.t = "obj" =>
                /\ X # None
                /\ {f.calls[j].executor : j \in DOMAIN f.calls} = MissingExecutors(f)
                /\ Len(f.calls) = Cardinality(MissingExecutors(f))
                /\ \A j \in DOMAIN f.calls :
                       /\ IsNodeQuery(f.calls[j], f.type)
                       /\ IdsOf(f.calls[j]) = Some(JArr(<<X[1]>>))
                /\ f.out.t = "obj"
                /\ \A k \in Keys(f.data) :
                       /\ k \in Keys(f.out)
                       /\ \/ value_get(f.out, k) = value_get(f.data, k)
                          \/ \E j \in DOMAIN f.calls :
                                 value_get(f.out, k) = value_get(NodeOf(f.calls[j]), k)
                /\ \A j \in DOMAIN f.calls :
                       /\ NodeOf(f.calls[j]).t = "obj"
                       /\ \A k \in Keys(NodeOf(f.calls[j])) :
                              \E i \in DOMAIN f.calls :
                                  value_get(f.out, k) = value_get(NodeOf(f.calls[i]), k)

\* the positions of the nodes an upstream `nodes` array holds for an id
NodesWithId(nodes, key, id) ==
    {j \in DOMAIN nodes.v : nodes.v[j].t = "obj" /\ value_get(nodes.v[j], key) = Some(id)}

\* C8: for an array parent, node-fetch results are joined to the parent
\* elements by id: each element is enriched with the returned node that
\* carries the element's id, whatever its position in the upstream `nodes`
\* array, and an element no returned node carries the id of becomes null.
C8_JoinById ==
    \A n \in DOMAIN req.fetches :
        LET f == req.fetches[n]
            key == IdKey(f.selections)
        IN  (f.data.t = "arr" /\ f.node_data.t = "arr") =>
                /\ f.out.t = "arr"
                /\ Len(f.out.v) = Len(f.data.v)
                /\ \A i \in DOMAIN f.data.v :
                       LET matches == NodesWithId(f.node_data, key,
                                                  value_get(f.data.v[i], key)[1])
                       IN  IF matches = {} THEN f.out.v[i] = JNull
                           ELSE \E j \in matches :
                                    f.out.v[i] = JObj(map_extend(f.data.v[i].v,
                                                                 f.node_data.v[j].v, 1))

\* the calls of the request that ask executor_name for nodes of a parent by
\* the document of call
SameFetch(call, ids) ==
    {j \in DOMAIN req.calls :
        /\ req.calls[j].executor = call.executor
        /\ req.calls[j].name = "NodeQuery"
        /\ req.calls[j].selections = call.selections
        /\ req.calls[j].fragments = call.fragments
        /\ IdsOf(req.calls[j]) # None
        /\ Range(IdsOf(req.calls[j])[1].v) \subseteq Range(ids)}

\* C9: for an array parent of n >= 1 objects of a Node-implementing type
\* whose first element lacks fields owned by executor E, the request makes
\* exactly one node-fetch call to E, carrying the ids of all n elements in
\* parent order, and the recursion into the elements makes no further
\* node-fetch call to E for the same selection set.
C9_BatchedNodeFetch ==
    \A n \in DOMAIN req.fetches :
        LET f == req.fetches[n]
            key == IdKey(f.selections)
            ids == [i \in DOMAIN f.data.v |-> value_get(f.data.v[i], key)[1]]
        IN  f.data.t = "arr" =>
                /\ {f.calls[j].executor : j \in DOMAIN f.calls} = Range(f.missing)
                /\ \A j \in DOMAIN f.calls :
                       /\ IdsOf(f.calls[j]) = Some(JArr(ids))
                       /\ Cardinality(SameFetch(f.calls[j], ids)) = 1

\* whether a value has the shape a selection set asks for: an object has
\* exactly the response names as its keys, in document order, and the value
\* under each has the shape of the sub-selections of the fields of that name
RECURSIVE Shaped(_, _)
Shaped(value, items) ==
    IF items = <<>> THEN TRUE
    ELSE CASE value.t = "arr" -> \A i \in DOMAIN value.v : Shaped(value.v[i], items)
           [] value.t = "obj" ->
                /\ map_keys(value.v) = ResponseNames(items)
                /\ \A i \in DOMAIN FlatFields(items) :
                       Shaped(value_get(value, response_name(FlatFields(items)[i]))[1],
                              FlatFields(items)[i].items)
           [] OTHER -> value.t = "null"

\* C10: whenever a request succeeds, every object of the result has as its
\* keys exactly the response names (alias if given, else field name) of the
\* client's selection set for it, fragment spreads and inline fragments
\* flattened in place, in document order: neither the id the gateway
\* selects for its own use nor a key upstream returned unasked appears.
C10_SelectionPreservation ==
    (req.q # "" /\ req.ok) => Shaped(req.v, RequestOf(req.q).selections)

\* a request succeeded for which the gateway fetched an id, and a field under
\* its alias, that the client's selection of the object does not name
C10_Witness ==
    /\ req.q # ""
    /\ req.ok
    /\ \E n \in DOMAIN req.fetches :
           /\ req.fetches[n].out.t = "obj"
           /\ "id" \in Keys(req.fetches[n].out)
           /\ "id" \notin Range(ResponseNames(req.fetches[n].selections))
    /\ \E n \in DOMAIN req.fetches :
           /\ req.fetches[n].out.t = "obj"
           /\ \E i \in DOMAIN req.fetches[n].selections :
                  req.fetches[n].selections[i].alias # None

(***************************************************************************)
(* Properties of the root dispatch (SpecDispatch).                         *)
(***************************************************************************)
InDispatch == req # NoRequest

\* the executors whose run was started, in the order of the starts
Started ==
    LET starts == SelectSeq(req.events, LAMBDA ev : ev[1] = "start")
    IN  [k \in DOMAIN starts |-> starts[k][2]]

\* the owners of the fields of the root selection in document order, each at
\* its first reference
FirstReferenced ==
    LET fields == FlatFields(RequestOf(req.q).selections)
    IN  Distinct([k \in DOMAIN fields |->
                    schema.type_fields_by_name[<<"Object", RequestOf(req.q).operation,
                                                 fields[k].name>>][1]])

\* every run ends before the next one starts
OneAtATime ==
    \A k \in DOMAIN req.events :
        IF k % 2 = 1 THEN req.events[k][1] = "start"
        ELSE req.events[k] = <<"end", req.events[k - 1][2]>>

\* C11: for a mutation, the runs of the root sub-queries happen strictly one
\* after another (a run starts only after the previous run has ended), each
\* executor is run at most once, and the runs follow the order in which the
\* executors are first referenced by the fields of the root selection in
\* document order; a request that reaches resolve has run them all.
C11_MutationSequential ==
    (InDispatch /\ RequestOf(req.q).operation = "Mutation") =>
        /\ OneAtATime
        /\ Len(Started) <= Len(FirstReferenced)
        /\ Started = SubSeq(FirstReferenced, 1, Len(Started))
        /\ req.stage = "resolve" => Started = FirstReferenced

\* a mutation whose second executor is referenced by two root fields ran
\* both executors and succeeded
C11_Witness ==
    /\ InDispatch
    /\ req.q = "addProduct"
    /\ req.phase = "done"
    /\ req.ok
    /\ Started = <<"product", "account">>
    /\ Len(SelectSeq(FlatFields(RequestOf(req.q).selections),
                     LAMBDA x : x.name = "signIn")) = 2

\* C12: for a query whose root selection involves two or more executors, the
\* runs are launched concurrently: while the run of an earlier executor is
\* in flight, the run of every later executor can start.
C12_QueryConcurrent ==
    (/\ InDispatch
     /\ RequestOf(req.q).operation = "Query"
     /\ Len(req.missing) >= 2
     /\ req.phase = "running") =>
        \A k \in (req.i + 1)..Len(req.missing) : ENABLED Run(req.missing[k])

\* C13: planning completes before any upstream call: a request, query or
\* mutation, that ends with an error of planning its root selection set
\* (resolve_executors, or resolve_executor for any executor's part) has
\* started no run of any executor.
C13_PlanBeforeCalls ==
    (InDispatch /\ req.phase = "done" /\ req.stage = "plan") =>
        /\ req.events = <<>>
        /\ req.st.calls = <<>>

(***************************************************************************)
(* Properties of planning errors (SpecQuery).                              *)
(***************************************************************************)
\* the selections of a selection set on object_type that cannot be
\* resolved, each with its position and the message it calls for: a field
\* the type does not have, a spread of an undefined fragment, a fragment
\* without or with an unknown type; at this level and inside fields, spreads
\* and inline fragments
Bad(x, message) == {[position |-> x.position, message |-> message]}

RECURSIVE BadSelections(_, _)
BadSelections(object_type, items) ==
    UNION {LET x == items[k]
           IN  IF x.k = "Field"
               THEN IF starts_with_underscores(x.name) THEN {}
                    ELSE IF field_object_type(schema, object_type, x.name) = None
                    THEN Bad(x, "Cannot query field \"" \o x.name \o "\" on type \""
                                   \o object_type.name \o "\".")
                    ELSE BadSelections(field_object_type(schema, object_type, x.name)[1][2],
                                       x.items)
               ELSE IF x.k = "FragmentSpread"
               THEN IF x.name \notin DOMAIN ClientFragments
                    THEN Bad(x, "Unknown fragment \"" \o x.name \o "\".")
                    ELSE IF object(schema, ClientFragments[x.name].type_condition) = None
                    THEN Bad(x, "\"__typename\" must be an existing string")
                    ELSE BadSelections(object(schema,
                                              ClientFragments[x.name].type_condition)[1],
                                       ClientFragments[x.name].items)
               ELSE IF x.type_condition = None
               THEN Bad(x, "Missing type condition on inline fragment.")
               ELSE IF object(schema, x.type_condition[1]) = None
               THEN Bad(x, "\"__typename\" must be an existing string")
               ELSE BadSelections(object(schema, x.type_condition[1])[1], x.items) :
           k \in DOMAIN items}

\* the bad selections of the client's document
BadOfRequest == BadSelections(RootType(req.q)[1], RequestOf(req.q).selections)

\* what a failed request reports
Reported ==
    {[position |-> req.err.errors[k].position,
      message |-> to_string(req.err.errors[k].error)] : k \in DOMAIN req.err.errors}

\* the request failed with errors of planning: selections that cannot be
\* resolved against the schema
PlanningFailed ==
    /\ req.q # ""
    /\ ~req.ok
    /\ req.err.kind = "Errors"
    /\ \A k \in DOMAIN req.err.errors :
           req.err.errors[k].error.kind \in
               {"FieldNotFound", "UnknownFragment", "TypeNameNotExists",
                "MissingTypeConditionInlineFragment"}

\* C14: planning errors accumulate: a request that fails with planning
\* errors reports all the bad selections of its selection set together, at
\* the same level and nested inside fields, spreads and inline fragments; an
\* error found inside a nested selection or fragment does not discard the
\* errors recorded for its siblings.
C14_ErrorsAccumulate ==
    PlanningFailed =>
        Reported = BadOfRequest

\* one entry of the serialised error list: message and one location
IsErrorEntry(entry, bad) ==
    /\ entry.t = "obj"
    /\ Keys(entry) = {"message", "locations"}
    /\ value_get(entry, "message")[1] = JStr(bad.message)
    /\ value_get(entry, "locations")[1].t = "arr"
    /\ Len(value_get(entry, "locations")[1].v) = 1
    /\ Keys(value_get(entry, "locations")[1].v[1]) = {"line", "column"}
    /\ value_get(value_get(entry, "locations")[1].v[1], "line")[1]
           = JNum(bad.position \div 100)
    /\ value_get(value_get(entry, "locations")[1].v[1], "column")[1]
           = JNum(bad.position % 100)

\* C15: a request holding selections that cannot be resolved against the
\* merged schema fails, and its serialised response is {"errors": [...]}
\* with one entry per such selection and no other: "Cannot query field
\* <name> on type <type>" for a field its parent type does not define,
\* "Unknown fragment <name>" for a spread of an undefined fragment, each with
\* the line and column of that selection as its single location.
C15_PositionedErrors ==
    (req.q # "" /\ BadOfRequest # {}) =>
        /\ ~req.ok
        /\ Keys(GraphQLResponse(req)) = {"errors"}
        /\ value_get(GraphQLResponse(req), "errors")[1].t = "arr"
        /\ Len(value_get(GraphQLResponse(req), "errors")[1].v) = Cardinality(BadOfRequest)
        /\ \A bad \in BadOfRequest :
               \E k \in DOMAIN value_get(GraphQLResponse(req), "errors")[1].v :
                   IsErrorEntry(value_get(GraphQLResponse(req), "errors")[1].v[k], bad)

(***************************************************************************)
(* Properties of the documents sent upstream (SpecQuery).                  *)
(***************************************************************************)
\* the variables the document of a call refers to: operation and fragments
ReferencedBy(call) == up_variables(call.fragments, call.selections)

\* the variable definitions the client's document declares, and the one the
\* gateway declares for the ids of a NodeQuery
DefinitionsFor(names) ==
    {RequestOf(req.q).variable_definitions[n] :
        n \in names \cap DOMAIN RequestOf(req.q).variable_definitions}
        \cup {VariableDefinition("__gql_gateway_ids", "[ID]!") :
                 n \in names \cap {"__gql_gateway_ids"}}

\* C16: the variable definitions of every document sent to an executor are
\* exactly the definitions of the variables that the arguments of the fields
\* of its selections and fragments refer to: every referenced variable is
\* declared, also when two fields pass different variables to arguments of
\* the same name, and no unreferenced variable is declared.
C16_VariableDefinitions ==
    req.q # "" =>
        \A n \in DOMAIN req.calls :
            req.calls[n].variable_definitions = DefinitionsFor(ReferencedBy(req.calls[n]))

\* the calls of the request whose response carries the key errors
Refused == {n \in DOMAIN req.calls : value_get(req.calls[n].response, "errors") # None}

\* C17: when the response of an executor holds the key errors, with or
\* without data, the request fails with an executor error holding that
\* response, nothing is sent upstream after it, and the serialised response
\* is that envelope itself, key by key, not wrapped in a gateway error.
C17_ExecutorErrorPassthrough ==
    (req.q # "" /\ Refused # {}) =>
        /\ Refused = {Len(req.calls)}
        /\ ~req.ok
        /\ req.err = QExecutor(req.calls[Len(req.calls)].response)
        /\ GraphQLResponse(req) = req.calls[Len(req.calls)].response

\* an executor answered errors without data after another had answered
C17_Witness ==
    /\ req.q # ""
    /\ Len(req.calls) = 2
    /\ Refused = {2}
    /\ Keys(req.calls[2].response) = {"errors"}
    /\ Keys(GraphQLResponse(req)) = {"errors"}

(***************************************************************************)
(* Fragment equivalence (SpecQuery).                                       *)
(***************************************************************************)
\* a selection set with every spread of a defined fragment replaced by an
\* inline fragment of the same type condition and selection set
RECURSIVE Inlined(_)
Inlined(items) ==
    [k \in DOMAIN items |->
        IF items[k].k = "FragmentSpread" /\ items[k].name \in DOMAIN ClientFragments
        THEN InlineFragment(Some(ClientFragments[items[k].name].type_condition),
                            Inlined(ClientFragments[items[k].name].items),
                            items[k].position)
        ELSE [items[k] EXCEPT !.items = Inlined(@)]]

\* the client's request without named fragments
InlinedRequest ==
    [RequestOf(req.q) EXCEPT !.selections = Inlined(@), !.fragments = <<>>]

SameOutcome(r) == r.ok = req.ok /\ (r.ok => r.v = req.v)

\* C18: a query that spreads named fragments and the query with each spread
\* replaced by an inline fragment of the same type condition and selection
\* set give the same result JSON, or both fail, whatever the merge order of
\* the schema and the answers of the upstream services.
C18_FragmentEquivalence ==
    (req.q # "" /\ ClientFragments # <<>>) =>
        SameOutcome(execute_query(Gw, InlinedRequest, req.mode))

\* a request spreading a fragment whose fields belong to two executors
\* succeeded with the fields of the fragment in its result
C18_Witness ==
    /\ req.q = "fragment"
    /\ req.ok
    /\ InlinedRequest.selections[1].items[2].k = "InlineFragment"
    /\ Keys(value_get(req.v, "viewer")[1]) = {"username", "email", "reviews"}
    /\ {req.calls[n].executor : n \in DOMAIN req.calls} = {"account", "review"}

(***************************************************************************)
(* The early returns of resolve (SpecResolve).                             *)
(***************************************************************************)
\* C19: resolve returns its data unchanged and sends nothing upstream when
\* the selection set is empty (whatever the data), the data is null
\* (whatever the selection set) or the data is an empty array, whether or
\* not the parent type implements Node.
C19_ResolveEarlyReturn ==
    (req # NoRequest /\ Trivial(req.selections, req.data)) =>
        /\ req.ok
        /\ req.v = req.data
        /\ req.calls = <<>>
        /\ req.fetches = <<>>

\* resolve returned an empty array as it was for a type implementing Node and
\* selections that another array of that type is fetched for
C19_Witness ==
    /\ req # NoRequest
    /\ is_node(object(schema, req.type)[1])
    /\ req.selections # <<>>
    /\ req.data = JArr(<<>>)
    /\ req.v = JArr(<<>>)

(***************************************************************************)
(* The ownership filter (SpecQuery).                                       *)
(***************************************************************************)
\* every field of a selection set on object_type, at any depth and inside
\* the fragments of the document, is the id field, a field whose final type
\* is an interface or a field the schema records e as the owner of
RECURSIVE OwnedBy(_, _, _, _)
OwnedBy(e, fragments, object_type, items) ==
    \A k \in DOMAIN items :
        IF items[k].k = "Field"
        THEN /\ field_object_type(schema, object_type, items[k].name) # None
             /\ \/ items[k].name = "id"
                \/ is_interface(field_object_type(schema, object_type, items[k].name)[1][2])
                \/ field_object_type(schema, object_type, items[k].name)[1][1] = e
             /\ OwnedBy(e, fragments,
                        field_object_type(schema, object_type, items[k].name)[1][2],
                        items[k].items)
        ELSE IF items[k].k = "InlineFragment"
        THEN OwnedBy(e, fragments, object(schema, items[k].type_condition[1])[1],
                     items[k].items)
        ELSE /\ items[k].name \in DOMAIN fragments
             /\ OwnedBy(e, fragments,
                        object(schema, fragments[items[k].name].type_condition)[1],
                        fragments[items[k].name].items)

\* C20: every field of the selections and of the rewritten fragments of a
\* document sent to executor E, at any depth, is the id field, a field whose
\* final type is an interface, or a field whose recorded owner is E: no
\* sub-query sent to E holds a field owned by another executor.
C20_OwnershipFilter ==
    req.q # "" =>
        \A n \in DOMAIN req.calls :
            OwnedBy(req.calls[n].executor, req.calls[n].fragments,
                    object(schema, req.calls[n].operation)[1], req.calls[n].selections)

\* review was sent the client's fragment on User rewritten: with reviews and
\* without account's email
C20_Witness ==
    /\ req.q = "fragment"
    /\ req.ok
    /\ \E n \in DOMAIN req.calls :
           /\ req.calls[n].executor = "review"
           /\ "UserParts" \in DOMAIN req.calls[n].fragments
           /\ {x.name : x \in Range(req.calls[n].fragments["UserParts"].items)}
                  = {"id", "reviews"}
    /\ "email" \in {x.name : x \in Range(ClientFragments["UserParts"].items)}

(***************************************************************************)
(* Claims about the sub-queries and the merge (C21 to C25).                *)
(***************************************************************************)
IsId(x) == x.k = "Field" /\ x.name = "id"

\* the selections a NodeQuery asks of each node: the items of its
\* `... on T` under `nodes`
NodeItems(call) == call.selections[1].items[1].items

\* the objects a node-fetch step was handed
Parents(f) == IF f.data.t = "arr" THEN f.data.v ELSE <<f.data>>

\* every non-empty selection set of a sent document whose parent implements
\* Node starts with a field named id and holds no other at its level
RECURSIVE IdLed(_, _, _)
IdLed(fragments, object_type, items) ==
    /\ (is_node(object_type) /\ items # <<>>) =>
           /\ IsId(items[1])
           /\ \A i \in 2..Len(items) : ~IsId(items[i])
    /\ \A i \in DOMAIN items :
           LET x == items[i]
           IN  CASE x.k = "Field" ->
                       (x.items # <<>>
                            /\ field_object_type(schema, object_type, x.name) # None) =>
                           IdLed(fragments,
                                 field_object_type(schema, object_type, x.name)[1][2],
                                 x.items)
                 [] x.k = "InlineFragment" ->
                       IdLed(fragments, object(schema, x.type_condition[1])[1], x.items)
                 [] OTHER ->
                       IdLed(fragments, object(schema, fragments[x.name].type_condition)[1],
                             fragments[x.name].items)

\* C21: for a non-empty selection set on a Node-implementing parent, the
\* selection list resolve_executor produces starts with exactly one field
\* named id and holds no other id field at that level; it is the client's
\* own id selection, alias included, when the client selected id, and a
\* synthetic un-aliased id otherwise; and node-fetch reads the join key from
\* the parent data under the response name of that field.
C21_IdFirst ==
    /\ \A n \in DOMAIN req.calls :
           IdLed(req.calls[n].fragments, object(schema, req.calls[n].operation)[1],
                 req.calls[n].selections)
    /\ \A n \in DOMAIN req.fetches : \A j \in DOMAIN req.fetches[n].calls :
           LET f == req.fetches[n]
               items == NodeItems(f.calls[j])
               own == SelectSeq(f.selections, IsId)
               key == response_name(items[1])
           IN  /\ items[1] = IF own # <<>> THEN own[1] ELSE Field("id", None, <<>>, <<>>, 0)
               /\ field_id(ResolveInfo(items, f.calls[j].fragments, <<>>)) = key
               /\ \A i \in DOMAIN Parents(f) : value_get(Parents(f)[i], key) # None

\* a request fetched nodes once for a parent the client selected id of under
\* an alias and once for a parent the client did not select id of
C21_Witness ==
    /\ \E n \in DOMAIN req.fetches :
           /\ req.fetches[n].calls # <<>>
           /\ \E i \in DOMAIN req.fetches[n].selections :
                  IsId(req.fetches[n].selections[i])
                      /\ req.fetches[n].selections[i].alias # None
    /\ \E n \in DOMAIN req.fetches :
           /\ req.fetches[n].calls # <<>>
           /\ \A i \in DOMAIN req.fetches[n].selections :
                  ~IsId(req.fetches[n].selections[i])

IsScalar(x) == x.t \notin {"obj", "arr"}

\* out holds what a recursive merge of b into a holds: where both sides are
\* objects, the keys of both, joined in turn under each key; where both are
\* scalars, the later one
RECURSIVE Joined(_, _, _)
Joined(out, a, b) ==
    /\ (a.t = "obj" /\ b.t = "obj") =>
           /\ out.t = "obj"
           /\ Keys(a) \cup Keys(b) \subseteq Keys(out)
           /\ \A k \in Keys(a) \cap Keys(b) :
                  Joined(value_get(out, k)[1], value_get(a, k)[1], value_get(b, k)[1])
    /\ (IsScalar(a) /\ IsScalar(b)) => (out.t = b.t /\ out.v = b.v)

\* C22: merging executor responses is recursive: when both sides hold an
\* object under the same key, the merged result holds, at every nesting
\* depth, the keys of both sides, the later value winning only where both
\* sides hold a scalar; no key of the earlier executor's data is lost
\* because a later executor returned an object under the same parent key.
C22_RecursiveMerge ==
    req # NoRequest => Joined(JObj(req.out), JObj(req.a), JObj(req.b))

\* the object resolve_executors looks at: the data, or the first element
FirstData(data) == IF data.t = "arr" THEN data.v[1] ELSE data

\* every selected field that is not of interface type is in the object
\* under its response name
Present(object_type, selections, first) ==
    \A i \in DOMAIN FlatFields(selections) :
        LET x == FlatFields(selections)[i]
            fot == field_object_type(schema, object_type, x.name)
        IN  (fot # None /\ ~is_interface(fot[1][2])) =>
                value_get(first, response_name(x)) # None

\* resolve was applied to data that is neither null nor empty and carries
\* every selected field of a type implementing Node
AllPresent ==
    /\ req # NoRequest
    /\ ~Trivial(req.selections, req.data)
    /\ is_node(object(schema, req.type)[1])
    /\ Present(object(schema, req.type)[1], req.selections, FirstData(req.data))

RECURSIVE NamesSchema(_, _)
NamesSchema(fragments, items) ==
    \E i \in DOMAIN items :
        CASE items[i].k = "Field" ->
                 items[i].name = "__schema" \/ NamesSchema(fragments, items[i].items)
          [] items[i].k = "InlineFragment" -> NamesSchema(fragments, items[i].items)
          [] OTHER -> /\ items[i].name \in DOMAIN fragments
                      /\ NamesSchema(fragments, fragments[items[i].name].items)

\* the request selects __schema at its root
AsksSchema ==
    /\ req.q # ""
    /\ \E i \in DOMAIN RequestOf(req.q).selections :
           RequestOf(req.q).selections[i].name = "__schema"

\* the error is about the field __schema, or holds one that is
RECURSIVE AboutSchema(_)
AboutSchema(err) ==
    \/ err.kind \in {"FieldNotFound", "FieldDataNotFound"} /\ err.b = "__schema"
    \/ \E i \in DOMAIN err.errors : AboutSchema(err.errors[i].error)

\* the names of the merged types, as { types { name } } asks for them
TypeNames == JObj(<< <<"types", JArr([i \in DOMAIN schema.types |->
                          JObj(<< <<"name", JStr(schema.types[i].name)>> >>)])>> >>)

\* C24: a root __schema selection is answered locally from the serialized
\* merged schema and is never part of a document sent to an executor; the
\* request does not fail because of the __schema field, also when the same
\* operation selects ordinary root fields next to __schema.
C24_SchemaLocal ==
    AsksSchema =>
        /\ \A n \in DOMAIN req.calls :
               ~NamesSchema(req.calls[n].fragments, req.calls[n].selections)
        /\ ~AboutSchema(req.err)
        /\ req.ok => (req.v.t = "obj" /\ value_get(req.v, "__schema") = Some(TypeNames))

\* a selection set on object_type holds, at its own level, a field other
\* than id that the schema records executor e as the owner of
HasOwned(e, object_type, items) ==
    \E i \in DOMAIN items :
        /\ items[i].k = "Field"
        /\ items[i].name # "id"
        /\ field_object_type(schema, object_type, items[i].name) # None
        /\ ~is_interface(field_object_type(schema, object_type, items[i].name)[1][2])
        /\ field_object_type(schema, object_type, items[i].name)[1][1] = e

\* the fragment selection x is in the selections rewritten for an executor,
\* with the rewritten selections inner
Emitted(x, inner, rewritten) ==
    \E i \in DOMAIN rewritten.selections :
        LET y == rewritten.selections[i]
        IN  /\ y.k = x.k
            /\ y.position = x.position
            /\ y.name = x.name
            /\ IF x.k = "InlineFragment" THEN y.items = inner.selections
               ELSE /\ x.name \in DOMAIN rewritten.fragments
                    /\ rewritten.fragments[x.name].items = inner.selections

\* what the claim says of the fragments at one level of the client's
\* document, for executor e
KeptAt(ctx, e, object_type, items) ==
    \A i \in DOMAIN items :
        items[i].k # "Field" =>
            LET t == fragment_target(ctx, items[i])
                r == resolve_executor(ctx, object_type, items, e)
            IN  (t.ok /\ r.ok /\ resolve_executor(ctx, t.object_type, t.items, e).ok) =>
                    LET inner == resolve_executor(ctx, t.object_type, t.items, e).v
                    IN  /\ HasOwned(e, t.object_type, t.items) =>
                               Emitted(items[i], inner, r.v)
                        /\ ~Emitted(items[i], inner, r.v) =>
                               \A k \in DOMAIN inner.selections : IsId(inner.selections[k])

\* the same at every level of a selection set
RECURSIVE Kept(_, _, _, _)
Kept(ctx, e, object_type, items) ==
    /\ KeptAt(ctx, e, object_type, items)
    /\ \A i \in DOMAIN items :
           IF items[i].k = "Field"
           THEN field_object_type(schema, object_type, items[i].name) # None =>
                    Kept(ctx, e, field_object_type(schema, object_type, items[i].name)[1][2],
                         items[i].items)
           ELSE fragment_target(ctx, items[i]).ok =>
                    Kept(ctx, e, fragment_target(ctx, items[i]).object_type,
                         fragment_target(ctx, items[i]).items)

\* C25: resolve_executor drops a fragment spread or inline fragment from
\* executor E's sub-query only when the fragment's rewritten selection for E
\* holds nothing but the id; whenever the fragment's selection set holds a
\* non-id field that E owns, also when the fragment's type does not
\* implement Node and that field is the only one, the spread is emitted and,
\* for a named fragment, its rewritten definition is recorded under its name.
C25_FragmentKept ==
    req.q # "" =>
        \A e \in DOMAIN executors :
            Kept(Context(Gw, RequestOf(req.q), req.mode), e, RootType(req.q)[1],
                 RequestOf(req.q).selections)

(***************************************************************************)
(* Claims about the indices of the merged schema and the executors behind  *)
(* it (Spec).                                                              *)
(***************************************************************************)
\* types_by_name maps the key of the type at each position to that position
\* and holds no other key
TypeIndexed(s) ==
    /\ DOMAIN s.types_by_name = {type_key(s.types[i]) : i \in DOMAIN s.types}
    /\ \A i \in DOMAIN s.types : s.types_by_name[type_key(s.types[i])] = i - 1

\* every entry of type_fields_by_name designates the position, in the field
\* list of its type, of the field of its name
FieldIndexed(s) ==
    \A key \in DOMAIN s.type_fields_by_name :
        /\ <<key[1], key[2]>> \in DOMAIN s.types_by_name
        /\ LET t == s.types[s.types_by_name[<<key[1], key[2]>>] + 1]
               i == s.type_fields_by_name[key][2]
           IN  /\ t.fields # None
               /\ i + 1 \in DOMAIN t.fields[1]
               /\ t.fields[1][i + 1].name = key[3]

\* the field names the merged schema knows, and one it does not
FieldNames(s) == {key[3] : key \in DOMAIN s.type_fields_by_name} \cup {"nickname"}

\* C26: after every successful merge, types_by_name is a bijection between
\* the Kind.Name keys of the merged types and the positions of types, every
\* entry Kind.Type.Field -> (owner, i) of type_fields_by_name designates
\* position i of that type's field list, where the field named Field is
\* stored, and the field lookup of the planner never returns a field of
\* another name.
C26_IndicesExact ==
    /\ TypeIndexed(schema)
    /\ FieldIndexed(schema)
    /\ \A i \in DOMAIN schema.types : \A name \in FieldNames(schema) :
           field(schema, schema.types[i], name) # None =>
               field(schema, schema.types[i], name)[1][2].name = name

\* a merge succeeded whose schema holds a type with fields of two owners and
\* a field its second declarer did not add again
C26_Witness ==
    /\ Merged
    /\ last.op \in {"build", "pull"}
    /\ last.res.ok
    /\ \E key1, key2 \in DOMAIN schema.type_fields_by_name :
           /\ key1[1] = key2[1]
           /\ key1[2] = key2[2]
           /\ schema.type_fields_by_name[key1][1] # schema.type_fields_by_name[key2][1]
           /\ schema.type_fields_by_name[key1][2] > 0
           /\ Cardinality(Declarers(last.inputs, key1)) > 1

\* the types and fields of the schema registered executor e answers with are
\* part of the merged schema
PartOfSchema(e) ==
    \A t \in Range(SchemaOf(executors[e]).types) :
        /\ type_key(t) \in DOMAIN schema.types_by_name
        /\ t.fields # None =>
               \A f \in Range(t.fields[1]) :
                   <<t.kind, t.name, f.name>> \in DOMAIN schema.type_fields_by_name

\* C27: build() feeds the (name, schema) pair of every registered executor
\* into the merger: after a successful build each registered executor has a
\* cached introspection and its types and fields are part of the merged
\* schema.
C27_BuildFeedsAll ==
    (last.op = "build" /\ last.res.ok) =>
        \A e \in DOMAIN executors :
            /\ e \in DOMAIN introspections
            /\ introspections[e] = executors[e]
            /\ PartOfSchema(e)

\* the executors the merged schema records as owner of a field
Owners == {schema.type_fields_by_name[key][1] : key \in DOMAIN schema.type_fields_by_name}

\* C28: after any sequence of executor registrations, build, pull and
\* validate calls, every owner executor recorded in type_fields_by_name is a
\* key of the cached introspections and of the gateway's executor map, so
\* that dispatching a planned sub-query never fails with UnknownExecutor.
C28_OwnersRegistered ==
    /\ Owners \subseteq DOMAIN introspections
    /\ Owners \subseteq DOMAIN executors

\* the schema records two owners, one of them registered anew since with a
\* service that does not answer, and an executor is registered that the
\* schema knows nothing of
C28_Witness ==
    /\ Cardinality(Owners) > 1
    /\ \E e \in Owners : executors[e] = "Down"
    /\ \E e \in DOMAIN executors : e \notin DOMAIN introspections

(***************************************************************************)
(* Termination of the planner (SpecPlan).                                  *)
(***************************************************************************)
\* the request has ended: with the executors planned or with an error
Ended == req # NoRequest /\ req.phase = "done"

\* C29: planning and resolving terminate for every parsed document and
\* finite upstream data, also when the fragments of the document spread
\* each other cyclically: the request ends with a result or an error.
C29_Terminates == (req # NoRequest) ~> Ended

(***************************************************************************)
(* The ids of a node fetch (SpecQuery).                                    *)
(***************************************************************************)
\* the ids of the objects a node-fetch step was handed, read under the
\* response name of the id field its call selects
ParentIds(f, call) ==
    [i \in DOMAIN Parents(f) |->
        value_get(Parents(f)[i], response_name(NodeItems(call)[1]))[1]]

\* C30: in every node-fetch call the value of the variable __gql_gateway_ids
\* is the list of the ids of the parent data, one per parent and in the
\* parents' order, whatever variables the client sent with the request, a
\* variable named __gql_gateway_ids included.
C30_IdsFromParents ==
    \A n \in DOMAIN req.fetches : \A j \in DOMAIN req.fetches[n].calls :
        /\ IdsOf(req.fetches[n].calls[j]) # None
        /\ IdsOf(req.fetches[n].calls[j])[1].t = "arr"
        /\ IdsOf(req.fetches[n].calls[j])[1].v
               = ParentIds(req.fetches[n], req.fetches[n].calls[j])

====
